---- MODULE Spec2Model ----
(***************************************************************************)
(* Model of the RIPS credit-note assistant (src/app_rips_notas2.py): the   *)
(* claims-document reconciliation (copiar_servicios_factura_a_nota), the   *)
(* structural and code normalizations, and the Streamlit session that      *)
(* chains them.                                                            *)
(*                                                                         *)
(* Python values are tagged records, so that "12", 12 and 12.0 stay        *)
(* different values:                                                       *)
(*   Absent   the key is not in the dict                                   *)
(*   None     JSON null                                                    *)
(*   VStr(s)  a str, s the sequence of its characters                      *)
(*   VInt(n)  an int                                                       *)
(*   VFlt(d)  a float with one fraction digit, d its value in tenths       *)
(* A patient ("usuario") is a record over CAMPOS_PACIENTE plus "servicios";*)
(* a service item is a record carrying an object identity (oid): two items *)
(* with the same oid are the same Python object, reached through two       *)
(* references.                                                             *)
(***************************************************************************)
EXTENDS Integers, Sequences, FiniteSets, TLC

\* ------------------------------------------------------------------ values

Absent == [t |-> "absent"]
None == [t |-> "none"]
VStr(s) == [t |-> "str", s |-> s]
VInt(n) == [t |-> "int", n |-> n]
VFlt(d) == [t |-> "float", d |-> d]

IsStr(v) == v.t = "str"
IsInt(v) == v.t = "int"
IsFlt(v) == v.t = "float"
IsNumber(v) == IsInt(v) \/ IsFlt(v)

\* dict.get(key): a missing key reads as None
Get(v) == IF v = Absent THEN None ELSE v

\* Python truth value of a scalar
Truthy(v) ==
    CASE IsStr(v) -> Len(v.s) > 0
      [] IsInt(v) -> v.n # 0
      [] IsFlt(v) -> v.d # 0
      [] OTHER -> FALSE

\* "v in (None, '')" of the source, on the value a .get() returned
EsVacio(v) == Get(v) = None \/ v = VStr(<<>>)

Digitos == <<"0", "1", "2", "3", "4", "5", "6", "7", "8", "9">>

EsDigito(c) == \E i \in 1..10 : Digitos[i] = c

ValorDigito(c) == (CHOOSE i \in 1..10 : Digitos[i] = c) - 1

RECURSIVE NatToStr(_)
NatToStr(n) ==
    IF n < 10 THEN <<Digitos[n + 1]>>
    ELSE NatToStr(n \div 10) \o <<Digitos[(n % 10) + 1]>>

Abs(n) == IF n < 0 THEN -n ELSE n

\* str(int)
IntToStr(n) == IF n < 0 THEN <<"-">> \o NatToStr(-n) ELSE NatToStr(n)

\* str(float) for a float with one fraction digit: 170.0 -> "170.0"
FltToStr(d) ==
    (IF d < 0 THEN <<"-">> ELSE <<>>)
        \o NatToStr(Abs(d) \div 10) \o <<".">> \o NatToStr(Abs(d) % 10)

\* str(valor)
PyStr(v) ==
    CASE IsStr(v) -> v.s
      [] IsInt(v) -> IntToStr(v.n)
      [] IsFlt(v) -> FltToStr(v.d)
      [] OTHER -> <<"N", "o", "n", "e">>

\* s.isdigit()
IsDigit(s) == Len(s) > 0 /\ \A i \in 1..Len(s) : EsDigito(s[i])

\* s[:n]
Prefijo(s, n) == IF Len(s) <= n THEN s ELSE SubSeq(s, 1, n)

RECURSIVE Ceros(_)
Ceros(n) == IF n <= 0 THEN <<>> ELSE <<"0">> \o Ceros(n - 1)

\* s.zfill(n): zeros go after a leading sign
Zfill(s, n) ==
    IF Len(s) >= n THEN s
    ELSE IF Len(s) > 0 /\ s[1] \in {"+", "-"}
         THEN <<s[1]>> \o Ceros(n - Len(s)) \o Tail(s)
         ELSE Ceros(n - Len(s)) \o s

RECURSIVE Strip(_)
Strip(s) ==
    IF Len(s) = 0 THEN s
    ELSE IF s[1] = " " THEN Strip(Tail(s))
    ELSE IF s[Len(s)] = " " THEN Strip(SubSeq(s, 1, Len(s) - 1))
    ELSE s

RECURSIVE DigitosANat(_)
DigitosANat(s) ==
    IF Len(s) = 0 THEN 0
    ELSE 10 * DigitosANat(SubSeq(s, 1, Len(s) - 1)) + ValorDigito(s[Len(s)])

\* the unsigned part of an int literal, after strip()
SinSigno(s) == IF Len(s) > 0 /\ s[1] \in {"+", "-"} THEN Tail(s) ELSE s

\* int(valor) does not raise
IntOk(v) ==
    CASE IsInt(v) -> TRUE
      [] IsFlt(v) -> TRUE
      [] IsStr(v) -> IsDigit(SinSigno(Strip(v.s)))
      [] OTHER -> FALSE

\* int(valor), where IntOk(valor): floats truncate toward zero
IntDe(v) ==
    CASE IsInt(v) -> v.n
      [] IsFlt(v) -> IF v.d < 0 THEN -((-v.d) \div 10) ELSE v.d \div 10
      [] OTHER ->
          LET s == Strip(v.s)
              n == DigitosANat(SinSigno(s))
          IN  IF s[1] = "-" THEN -n ELSE n

\* ------------------------------------------------------------- constants

CAMPOS_PACIENTE ==
    << "tipoDocumentoIdentificacion", "numDocumentoIdentificacion",
       "tipoUsuario", "fechaNacimiento", "codSexo", "codPaisResidencia",
       "codMunicipioResidencia", "codZonaTerritorialResidencia",
       "codPaisOrigen", "incapacidad", "consecutivo" >>

SERVICIO_GRUPOS ==
    << "consultas", "procedimientos", "urgencias", "hospitalizacion",
       "recienNacidos", "medicamentos", "otrosServicios" >>

Grupos == {SERVICIO_GRUPOS[i] : i \in 1..Len(SERVICIO_GRUPOS)}

Campos == {CAMPOS_PACIENTE[i] : i \in 1..Len(CAMPOS_PACIENTE)}

\* CODIGOS_LONGITUD.get(campo): 0 stands for "no fixed length"
CODIGOS_LONGITUD(campo) ==
    CASE campo = "tipoUsuario" -> 2
      [] campo = "codPaisResidencia" -> 3
      [] campo = "codPaisOrigen" -> 3
      [] campo = "codMunicipioResidencia" -> 5
      [] campo = "codZonaTerritorialResidencia" -> 2
      [] OTHER -> 0

\* the fields normalizar_codigos_usuarios pads, in the order of its loop
CAMPOS_CODIGO ==
    << "codPaisResidencia", "codPaisOrigen",
       "codMunicipioResidencia", "codZonaTerritorialResidencia" >>

CamposCodigo == {CAMPOS_CODIGO[i] : i \in 1..Len(CAMPOS_CODIGO)}

TIPO_USUARIO_FIJO == VStr(<<"0", "8">>)

\* ------------------------------------------------- documents and patients

(***************************************************************************)
(* A document is [usuarios |-> <<...>>].  A patient that is a dict is      *)
(* [t |-> "usuario", <the eleven CAMPOS_PACIENTE>, servicios |-> ...]; any *)
(* other element of the list is a scalar value.  servicios is Absent, a    *)
(* scalar, or [t |-> "dict", m |-> [key -> group value]]; a group value is *)
(* a scalar or [t |-> "list", l |-> <<items>>]; an item that is a dict is  *)
(* [t |-> "item", oid, vrServicio, valorPagoModerador, codServicio].       *)
(***************************************************************************)

EsDict(x) == x.t = "dict"
EsLista(x) == x.t = "list"
EsUsuario(u) == u.t = "usuario"
EsItem(i) == i.t = "item"

Lista(l) == [t |-> "list", l |-> l]
Dict(m) == [t |-> "dict", m |-> m]

\* {} : the dict with no key
DictVacio == Dict([k \in {} |-> None])

\* d.get(k), for a servicios dict d
DictGet(d, k) == IF k \in DOMAIN d.m THEN d.m[k] ELSE None

\* d[k] = v
DictSet(d, k, v) ==
    Dict([x \in (DOMAIN d.m) \cup {k} |-> IF x = k THEN v ELSE d.m[x]])

\* the content of an item, without its object identity
Contenido(i) ==
    IF EsItem(i)
    THEN [vrServicio |-> i.vrServicio,
          valorPagoModerador |-> i.valorPagoModerador,
          codServicio |-> i.codServicio]
    ELSE i

CAMPOS_ITEM_SIGNO == <<"vrServicio", "valorPagoModerador">>

\* ------------------------------------------------------- business helpers

\* faulty variant: a list counts only from its second item on
tiene_lista_con_varios_items(servicios) ==
    IF ~EsDict(servicios) THEN FALSE
    ELSE \E k \in DOMAIN servicios.m :
            EsLista(servicios.m[k]) /\ Len(servicios.m[k].l) > 1

tiene_lista_con_items(servicios) ==
    IF ~EsDict(servicios) THEN FALSE
    ELSE \E k \in DOMAIN servicios.m :
            EsLista(servicios.m[k]) /\ Len(servicios.m[k].l) > 0

\* item[campo] * signo, written only where the field holds an int or a float
PorSigno(v, signo) ==
    CASE IsInt(v) -> VInt(v.n * signo)
      [] IsFlt(v) -> VFlt(v.d * signo)
      [] OTHER -> v

\* faulty variant: valorPagoModerador is left with the reference's sign
AjustarSoloVrServicio(item, signo) ==
    IF ~EsItem(item) THEN item
    ELSE [item EXCEPT !.vrServicio = PorSigno(@, signo)]

AjustarItem(item, signo) ==
    IF ~EsItem(item) THEN item
    ELSE [item EXCEPT !.vrServicio = PorSigno(@, signo),
                      !.valorPagoModerador = PorSigno(@, signo)]

ajustar_signo_servicios(servicios, signo) ==
    Dict([k \in DOMAIN servicios.m |->
            IF ~EsLista(servicios.m[k]) THEN servicios.m[k]
            ELSE Lista([j \in 1..Len(servicios.m[k].l) |->
                            AjustarItem(servicios.m[k].l[j], signo)])])

\* a normalization that adds the groups that are missing and keeps what is there
completar_grupos_faltantes(usuario) ==
    LET serv0 == Get(usuario.servicios)
        serv == IF EsDict(serv0) THEN serv0 ELSE DictVacio
    IN  [usuario EXCEPT !.servicios =
            Dict([k \in (DOMAIN serv.m) \cup Grupos |->
                    IF k \notin DOMAIN serv.m THEN Lista(<<>>) ELSE serv.m[k]])]

normalizar_servicios_usuario(usuario) ==
    LET serv0 == Get(usuario.servicios)
        serv == IF EsDict(serv0) THEN serv0 ELSE DictVacio
    IN  [usuario EXCEPT !.servicios =
            Dict([k \in (DOMAIN serv.m) \cup Grupos |->
                    IF k \in Grupos /\ ~EsLista(DictGet(serv, k))
                    THEN Lista(<<>>)
                    ELSE serv.m[k]])]

normalizar_documento_servicios(doc) ==
    [doc EXCEPT !.usuarios =
        [i \in 1..Len(doc.usuarios) |->
            IF EsUsuario(doc.usuarios[i])
            THEN normalizar_servicios_usuario(doc.usuarios[i])
            ELSE doc.usuarios[i]]]

formatear_codigo_campo(campo, valor) ==
    IF EsVacio(valor) THEN VStr(<<>>)
    ELSE LET v == IF IsFlt(valor) /\ valor.d % 10 = 0
                  THEN VInt(IntDe(valor)) ELSE valor
             s == PyStr(v)
             longitud == CODIGOS_LONGITUD(campo)
         IN  IF longitud # 0
             THEN IF IsDigit(s) /\ Len(s) <= longitud THEN VStr(Zfill(s, longitud))
                  ELSE IF Len(s) < longitud THEN VStr(Zfill(s, longitud))
                  ELSE VStr(s)
             ELSE VStr(s)

\* the loop of lines 136-139 over the four code fields, from field k on
RECURSIVE FormatearCodigos(_, _)
FormatearCodigos(u, k) ==
    IF k > Len(CAMPOS_CODIGO) THEN u
    ELSE LET campo == CAMPOS_CODIGO[k]
         IN  FormatearCodigos(
                 IF u[campo] # Absent /\ ~EsVacio(u[campo])
                 THEN [u EXCEPT ![campo] = formatear_codigo_campo(campo, u[campo])]
                 ELSE u,
                 k + 1)

\* fechaNacimiento in YYYY-MM-DD: the first ten characters of its str()
RecortarFecha(u) ==
    IF u.fechaNacimiento # Absent /\ Truthy(u.fechaNacimiento)
    THEN [u EXCEPT !.fechaNacimiento = VStr(Prefijo(PyStr(u.fechaNacimiento), 10))]
    ELSE u

\* lines 145-150: the assignment goes to u[campo], and campo is still the
\* variable of the loop over the code fields, which ended on its last field
CoercionConsecutivo(u) ==
    LET campo == CAMPOS_CODIGO[Len(CAMPOS_CODIGO)]
    IN  IF u.consecutivo # Absent /\ ~EsVacio(u.consecutivo) /\ IntOk(u.consecutivo)
        THEN [u EXCEPT ![campo] = VInt(IntDe(u.consecutivo))]
        ELSE u

\* the body of the loop of normalizar_codigos_usuarios for one patient
NormalizarCodigosUsuario(u) ==
    IF ~EsUsuario(u) THEN u
    ELSE CoercionConsecutivo(
            RecortarFecha(
                FormatearCodigos([u EXCEPT !.tipoUsuario = TIPO_USUARIO_FIJO], 1)))

normalizar_codigos_usuarios(nota) ==
    [nota EXCEPT !.usuarios =
        [i \in 1..Len(nota.usuarios) |-> NormalizarCodigosUsuario(nota.usuarios[i])]]

\* ------------------------------------------------------------ reconcile

\* the order in which a servicios dict is walked when its items are copied
ORDEN_CLAVES == SERVICIO_GRUPOS \o <<"otro">>

RECURSIVE ItemsAntes(_, _)
\* number of items held by the lists under the first k keys of ORDEN_CLAVES
ItemsAntes(servicios, k) ==
    IF k = 0 THEN 0
    ELSE ItemsAntes(servicios, k - 1)
            + (IF ORDEN_CLAVES[k] \in DOMAIN servicios.m
                  /\ EsLista(servicios.m[ORDEN_CLAVES[k]])
               THEN Len(servicios.m[ORDEN_CLAVES[k]].l) ELSE 0)

PosClave(k) == CHOOSE i \in 1..Len(ORDEN_CLAVES) : ORDEN_CLAVES[i] = k

\* copy.deepcopy(servicios): equal content, every dict item a new object
\* (oids base+1, base+2, ...)
DeepCopyServicios(servicios, base) ==
    Dict([k \in DOMAIN servicios.m |->
            IF ~EsLista(servicios.m[k]) THEN servicios.m[k]
            ELSE Lista([j \in 1..Len(servicios.m[k].l) |->
                    IF EsItem(servicios.m[k].l[j])
                    THEN [servicios.m[k].l[j] EXCEPT
                            !.oid = base + ItemsAntes(servicios, PosClave(k) - 1) + j]
                    ELSE servicios.m[k].l[j]])])

NumItems(servicios) == ItemsAntes(servicios, Len(ORDEN_CLAVES))

\* faulty variant: the target is given the reference's own dict and items
AsignarSinCopiar(servicios, base) == servicios

\* line 237: nuevo_servicios = copy.deepcopy(servicios_origen)
CopiarServicios(servicios, base) == DeepCopyServicios(servicios, base)

\* f[k] = v on a lookup index
Poner(f, k, v) == [x \in (DOMAIN f) \cup {k} |-> IF x = k THEN v ELSE f[x]]

IndiceVacio == [x \in {} |-> 0]

\* faulty variant: records with a blank number are indexed like the others
RECURSIVE ConstruirIndicesSinFiltro(_, _, _)
ConstruirIndicesSinFiltro(inv_users, k, acc) ==
    IF k > Len(inv_users) THEN acc
    ELSE LET u == inv_users[k]
         IN  IF ~EsUsuario(u) THEN ConstruirIndicesSinFiltro(inv_users, k + 1, acc)
             ELSE LET tipo == Get(u.tipoDocumentoIdentificacion)
                      num == Get(u.numDocumentoIdentificacion)
                  IN  ConstruirIndicesSinFiltro(inv_users, k + 1,
                          [inv_map_full |->
                              IF Truthy(tipo)
                              THEN Poner(acc.inv_map_full, <<tipo, num>>, k)
                              ELSE acc.inv_map_full,
                           inv_map_by_num |-> Poner(acc.inv_map_by_num, num, k)])

\* lines 169-181: the two lookup indices, holding positions in inv_users
RECURSIVE ConstruirIndices(_, _, _)
ConstruirIndices(inv_users, k, acc) ==
    IF k > Len(inv_users) THEN acc
    ELSE LET u == inv_users[k]
         IN  IF ~EsUsuario(u) THEN ConstruirIndices(inv_users, k + 1, acc)
             ELSE LET tipo == Get(u.tipoDocumentoIdentificacion)
                      num == Get(u.numDocumentoIdentificacion)
                  IN  IF ~Truthy(num) THEN ConstruirIndices(inv_users, k + 1, acc)
                      ELSE ConstruirIndices(inv_users, k + 1,
                              [inv_map_full |->
                                  IF Truthy(tipo)
                                  THEN Poner(acc.inv_map_full, <<tipo, num>>, k)
                                  ELSE acc.inv_map_full,
                               inv_map_by_num |-> Poner(acc.inv_map_by_num, num, k)])

\* faulty variant: the number-only index is asked first
EmparejarPorNumeroPrimero(indices, tipo, num) ==
    LET n == IF Truthy(num) THEN num ELSE VStr(<<>>)
    IN  IF n \in DOMAIN indices.inv_map_by_num
        THEN indices.inv_map_by_num[n]
        ELSE IF <<tipo, num>> \in DOMAIN indices.inv_map_full
             THEN indices.inv_map_full[<<tipo, num>>] ELSE 0

\* line 194: inv_map_full.get((tipo, num)) or inv_map_by_num.get(num or "");
\* 0 stands for None
Emparejar(indices, tipo, num) ==
    IF <<tipo, num>> \in DOMAIN indices.inv_map_full
    THEN indices.inv_map_full[<<tipo, num>>]
    ELSE LET n == IF Truthy(num) THEN num ELSE VStr(<<>>)
         IN  IF n \in DOMAIN indices.inv_map_by_num
             THEN indices.inv_map_by_num[n] ELSE 0

\* lines 211-221: the value written to u[campo] for a non-blank val
ValorCopiado(campo, val) ==
    IF campo = "consecutivo"
    THEN IF IntOk(val) THEN VInt(IntDe(val)) ELSE val
    ELSE IF campo = "fechaNacimiento" THEN VStr(Prefijo(PyStr(val), 10))
    ELSE IF CODIGOS_LONGITUD(campo) # 0 THEN formatear_codigo_campo(campo, val)
    ELSE VStr(PyStr(val))

\* faulty variant: a reference value is copied only into a blank target field
RECURSIVE CompletarDemografia(_, _, _)
CompletarDemografia(u, u_fact, k) ==
    IF k > Len(CAMPOS_PACIENTE) THEN u
    ELSE LET campo == CAMPOS_PACIENTE[k]
             val == Get(u_fact[campo])
         IN  CompletarDemografia(
                 IF campo = "tipoUsuario"
                 THEN [u EXCEPT ![campo] = TIPO_USUARIO_FIJO]
                 ELSE IF EsVacio(val) \/ ~EsVacio(u[campo]) THEN u
                 ELSE [u EXCEPT ![campo] = ValorCopiado(campo, val)],
                 u_fact, k + 1)

\* lines 201-221: the loop over CAMPOS_PACIENTE, from field k on
RECURSIVE CopiarDemografia(_, _, _)
CopiarDemografia(u, u_fact, k) ==
    IF k > Len(CAMPOS_PACIENTE) THEN u
    ELSE LET campo == CAMPOS_PACIENTE[k]
             val == Get(u_fact[campo])
         IN  CopiarDemografia(
                 IF campo = "tipoUsuario"
                 THEN [u EXCEPT ![campo] = TIPO_USUARIO_FIJO]
                 ELSE IF EsVacio(val) THEN u
                 ELSE [u EXCEPT ![campo] = ValorCopiado(campo, val)],
                 u_fact, k + 1)

\* faulty variant: the unmatched patient is not recorded
OlvidarSinEncontrar(b, tipo, num) == b

\* lines 196-198: u_fact is None
SinEncontrar(b, tipo, num) ==
    [b EXCEPT !.usuarios_sin_encontrar = Append(@, <<tipo, num>>)]

\* the state of the loop of lines 188-242 before any target patient
BucleInicial(inv_users, note_users, oid) ==
    [inv_users |-> inv_users,
     note_users |-> note_users,
     oid |-> oid,
     usuarios_modificados |-> 0,
     usuarios_ya_tenian_servicios |-> 0,
     usuarios_demografia_completada |-> 0,
     usuarios_sin_encontrar |-> <<>>,
     emparejado |-> [i \in 1..Len(note_users) |-> 0]]

\* lines 188-242 for the target patient at position k
PasoBucle(b, indices, k, forzar_signo) ==
    LET u == b.note_users[k]
        tipo == Get(u.tipoDocumentoIdentificacion)
        num == Get(u.numDocumentoIdentificacion)
        j == Emparejar(indices, tipo, num)
    IN  IF ~EsUsuario(u) THEN b
        ELSE IF j = 0
        THEN SinEncontrar(b, tipo, num)
        ELSE LET u1 == CopiarDemografia(u, b.inv_users[j], 1)
                 u_fact == normalizar_servicios_usuario(b.inv_users[j])
                 u2 == normalizar_servicios_usuario(u1)
                 b1 == [b EXCEPT !.inv_users[j] = u_fact,
                                 !.note_users[k] = u2,
                                 !.emparejado[k] = j,
                                 !.usuarios_demografia_completada = @ + 1]
             IN  IF tiene_lista_con_items(u2.servicios)
                 THEN [b1 EXCEPT !.usuarios_ya_tenian_servicios = @ + 1]
                 ELSE LET copia == CopiarServicios(u_fact.servicios, b.oid)
                          nuevo_servicios ==
                              IF forzar_signo \in {1, -1}
                              THEN ajustar_signo_servicios(copia, forzar_signo)
                              ELSE copia
                      IN  [b1 EXCEPT !.note_users[k].servicios = nuevo_servicios,
                                     !.oid = @ + NumItems(u_fact.servicios),
                                     !.usuarios_modificados = @ + 1]

\* faulty variant: the loop ends at the first patient without a reference record
RECURSIVE BucleHastaSinEncontrar(_, _, _, _)
BucleHastaSinEncontrar(b, indices, k, forzar_signo) ==
    IF k > Len(b.note_users) \/ b.usuarios_sin_encontrar # <<>> THEN b
    ELSE BucleHastaSinEncontrar(PasoBucle(b, indices, k, forzar_signo),
                                indices, k + 1, forzar_signo)

\* lines 188-242: the loop over note_users, from position k on
RECURSIVE Bucle(_, _, _, _)
Bucle(b, indices, k, forzar_signo) ==
    IF k > Len(b.note_users) THEN b
    ELSE Bucle(PasoBucle(b, indices, k, forzar_signo), indices, k + 1, forzar_signo)

\* forzar_signo: 0 stands for None.  The result carries, besides the returned
\* nota and resumen, the reference document (its patients are normalized in
\* place), the target patients as the loop left them (tras_copia, line 244)
\* and, per target patient, the position of the reference record it matched.
copiar_servicios_factura_a_nota(factura, nota, forzar_signo, oid) ==
    LET indices == ConstruirIndices(factura.usuarios, 1,
                      [inv_map_full |-> IndiceVacio, inv_map_by_num |-> IndiceVacio])
        b == Bucle(BucleInicial(factura.usuarios, nota.usuarios, oid),
                   indices, 1, forzar_signo)
    IN  [nota |-> normalizar_codigos_usuarios([nota EXCEPT !.usuarios = b.note_users]),
         factura |-> [factura EXCEPT !.usuarios = b.inv_users],
         tras_copia |-> b.note_users,
         emparejado |-> b.emparejado,
         oid |-> b.oid,
         resumen |->
            [total_usuarios_factura |-> Len(factura.usuarios),
             total_usuarios_nota |-> Len(nota.usuarios),
             usuarios_modificados |-> b.usuarios_modificados,
             usuarios_ya_tenian_servicios |-> b.usuarios_ya_tenian_servicios,
             usuarios_demografia_completada |-> b.usuarios_demografia_completada,
             usuarios_sin_encontrar |-> b.usuarios_sin_encontrar]]

\* every key a servicios dict of the model may hold
Claves == {ORDEN_CLAVES[i] : i \in 1..Len(ORDEN_CLAVES)}

\* the items under key k of a servicios value; none when there is no list there
ItemsDe(servicios, k) ==
    IF EsDict(servicios) /\ k \in DOMAIN servicios.m /\ EsLista(servicios.m[k])
    THEN servicios.m[k].l ELSE <<>>

Item(oid, vr, vpm, cod) ==
    [t |-> "item", oid |-> oid, vrServicio |-> vr,
     valorPagoModerador |-> vpm, codServicio |-> cod]

\* ------------------------------------------------- apply (bulk template)

(***************************************************************************)
(* The template read by pandas is                                          *)
(*   [legible |-> BOOLEAN, columnas |-> set of names, filas |-> <<rows>>]  *)
(* and a row maps each column to a cell: NaN for an empty cell, a Python   *)
(* value otherwise.  The cell of tipo_servicio holds the key str() gives.  *)
(***************************************************************************)

NaN == [t |-> "nan"]

\* pd.isna(valor)
IsNa(v) == v = NaN \/ v = None

\* what pandas read from the uploaded file
Plantilla(legible, columnas, filas) ==
    [legible |-> legible, columnas |-> columnas, filas |-> filas]

OBLIGATORIAS == <<"idx_usuario", "tipo_servicio", "idx_item", "vrServicio_nota">>

\* float(valor) does not raise: numbers, and strings of digits with at most
\* one fraction digit
FloatOk(v) ==
    CASE IsInt(v) -> TRUE
      [] IsFlt(v) -> TRUE
      [] IsStr(v) ->
            LET s == SinSigno(Strip(v.s))
            IN  \/ IsDigit(s)
                \/ /\ Len(s) >= 3
                   /\ s[Len(s) - 1] = "."
                   /\ IsDigit(SubSeq(s, 1, Len(s) - 2))
                   /\ EsDigito(s[Len(s)])
      [] OTHER -> FALSE

\* float(valor), where FloatOk(valor)
FloatDe(v) ==
    CASE IsInt(v) -> VFlt(10 * v.n)
      [] IsFlt(v) -> v
      [] OTHER ->
            LET s0 == Strip(v.s)
                s == SinSigno(s0)
                d == IF IsDigit(s) THEN 10 * DigitosANat(s)
                     ELSE 10 * DigitosANat(SubSeq(s, 1, Len(s) - 2))
                            + ValorDigito(s[Len(s)])
            IN  VFlt(IF s0[1] = "-" THEN -d ELSE d)

\* lines 485-499: the value written to usuario_nota[campo] for a filled cell
ValorPlantilla(campo, valor) ==
    IF campo = "tipoUsuario" THEN TIPO_USUARIO_FIJO
    ELSE IF campo = "consecutivo"
    THEN IF IntOk(valor) THEN VInt(IntDe(valor)) ELSE valor
    ELSE IF campo = "fechaNacimiento" THEN VStr(Prefijo(PyStr(valor), 10))
    ELSE IF CODIGOS_LONGITUD(campo) # 0 THEN formatear_codigo_campo(campo, valor)
    ELSE VStr(PyStr(IF IsFlt(valor) /\ valor.d % 10 = 0
                    THEN VInt(IntDe(valor)) ELSE valor))

\* lines 478-499: the loop over CAMPOS_PACIENTE, from field k on
RECURSIVE ActualizarDemografia(_, _, _, _)
ActualizarDemografia(u, fila, columnas, k) ==
    IF k > Len(CAMPOS_PACIENTE) THEN u
    ELSE LET campo == CAMPOS_PACIENTE[k]
         IN  ActualizarDemografia(
                 IF campo \notin columnas \/ IsNa(fila[campo]) THEN u
                 ELSE [u EXCEPT ![campo] = ValorPlantilla(campo, fila[campo])],
                 fila, columnas, k + 1)

\* {} : a new empty service item
ItemVacio(oid) == Item(oid, Absent, Absent, Absent)

\* lista[k] does not raise IndexError (k counted from 0, negative from the end)
IndiceOk(l, k) == IF k >= 0 THEN k < Len(l) ELSE Len(l) + k >= 0

\* the position, from 1, that lista[k] addresses
Pos(l, k) == IF k >= 0 THEN k + 1 ELSE Len(l) + k + 1

\* lines 540-541: while len(lista) <= idx_item: lista.append({})
RECURSIVE Rellenar(_, _, _)
Rellenar(l, idx_item, oid) ==
    IF Len(l) <= idx_item THEN Rellenar(Append(l, ItemVacio(oid)), idx_item, oid + 1)
    ELSE l

\* copy.deepcopy(item)
DeepCopyItem(item, oid) == IF EsItem(item) THEN [item EXCEPT !.oid = oid] ELSE item

\* the state of the loop of lines 453-570 before any row
FilasInicial(usuarios_nota, actualizados, oid) ==
    [usuarios_nota |-> usuarios_nota,
     errores |-> <<>>,
     updated_indices |-> actualizados,
     oid |-> oid,
     excepcion |-> FALSE]

ConError(e, error) == [e EXCEPT !.errores = Append(@, error)]

ConExcepcion(e) == [e EXCEPT !.excepcion = TRUE]

\* lines 554-570: the target slot exists
EscribirValor(e, idx_u, tipo_serv, idx_item, vr_nota) ==
    LET servicios_nota == e.usuarios_nota[idx_u + 1].servicios
        lista == DictGet(servicios_nota, tipo_serv)
    IN  IF ~(EsLista(lista) /\ idx_item < Len(lista.l))
        THEN ConError(e, "estructura_no_asegurada")
        ELSE IF ~IndiceOk(lista.l, idx_item) THEN ConExcepcion(e)
        ELSE IF ~FloatOk(vr_nota) THEN ConError(e, "valor_invalido")
        ELSE IF ~EsItem(lista.l[Pos(lista.l, idx_item)]) THEN ConExcepcion(e)
        ELSE [e EXCEPT
                !.usuarios_nota[idx_u + 1].servicios.m[tipo_serv].l[Pos(lista.l, idx_item)].vrServicio
                    = FloatDe(vr_nota),
                !.updated_indices = @ \cup {idx_u}]

\* lines 537-543, lista_fac being the invoice's list and l0 the note's
CopiarLineaBase(e, idx_u, tipo_serv, idx_item, lista_fac, l0, l1) ==
    IF ~IndiceOk(l1, idx_item)
    THEN [paso |-> "raise", e |-> ConExcepcion(e)]
    ELSE [paso |-> "sigue",
          e |-> [e EXCEPT
                    !.usuarios_nota[idx_u + 1].servicios =
                        DictSet(@, tipo_serv,
                            Lista([l1 EXCEPT ![Pos(l1, idx_item)] =
                                DeepCopyItem(lista_fac[Pos(lista_fac, idx_item)], e.oid)])),
                    !.oid = @ + 1 + (Len(l1) - Len(l0))]]

\* lines 527-543, usuario_fac being usuarios_fac[idx_u] and lista the note's entry
SembrarDesde(e, usuario_fac, lista, idx_u, tipo_serv, idx_item) ==
    IF ~EsUsuario(usuario_fac)
        \/ (usuario_fac.servicios # Absent /\ ~EsDict(usuario_fac.servicios))
    THEN [paso |-> "raise", e |-> ConExcepcion(e)]
    ELSE IF ~(/\ EsDict(usuario_fac.servicios)
              /\ EsLista(DictGet(usuario_fac.servicios, tipo_serv))
              /\ idx_item < Len(ItemsDe(usuario_fac.servicios, tipo_serv)))
    THEN [paso |-> "continue", e |-> ConError(e, "sin_linea_base")]
    ELSE IF ~IndiceOk(ItemsDe(usuario_fac.servicios, tipo_serv), idx_item)
    THEN [paso |-> "raise", e |-> ConExcepcion(e)]
    ELSE CopiarLineaBase(e, idx_u, tipo_serv, idx_item,
                         ItemsDe(usuario_fac.servicios, tipo_serv),
                         IF EsLista(lista) THEN lista.l ELSE <<>>,
                         Rellenar(IF EsLista(lista) THEN lista.l ELSE <<>>,
                                  idx_item, e.oid + 1))

\* lines 509-543: the target has no entry at (tipo_serv, idx_item)
Sembrar(e, factura, idx_u, tipo_serv, idx_item) ==
    IF factura = None
    THEN [paso |-> "continue", e |-> ConError(e, "sin_estructura_sin_factura")]
    ELSE IF ~(0 <= idx_u /\ idx_u < Len(factura.usuarios))
    THEN [paso |-> "continue", e |-> ConError(e, "usuario_no_en_factura")]
    ELSE SembrarDesde(e, factura.usuarios[idx_u + 1],
                      DictGet(e.usuarios_nota[idx_u + 1].servicios, tipo_serv),
                      idx_u, tipo_serv, idx_item)

\* lines 501-504
AsegurarServicios(u) ==
    IF EsDict(Get(u.servicios)) THEN u ELSE [u EXCEPT !.servicios = DictVacio]

\* line 509, lista being servicios_nota.get(tipo_serv)
HayEntrada(lista, idx_item) == EsLista(lista) /\ idx_item < Len(lista.l)

\* lines 545-570, r being what lines 509-543 left
TrasSembrar(r, idx_u, tipo_serv, idx_item, vr_nota) ==
    IF r.paso = "sigue" THEN EscribirValor(r.e, idx_u, tipo_serv, idx_item, vr_nota)
    ELSE r.e

\* lines 506-570, the patient's demographics written and its servicios a dict
TrasDemografia(e, factura, idx_u, tipo_serv, idx_item, vr_nota) ==
    TrasSembrar(
        IF HayEntrada(DictGet(e.usuarios_nota[idx_u + 1].servicios, tipo_serv), idx_item)
        THEN [paso |-> "sigue", e |-> e]
        ELSE Sembrar(e, factura, idx_u, tipo_serv, idx_item),
        idx_u, tipo_serv, idx_item, vr_nota)

\* lines 475-570: the row addresses patient idx_u of the note
FilaEnUsuario(e, factura, fila, columnas, idx_u, tipo_serv, idx_item) ==
    IF ~EsUsuario(e.usuarios_nota[idx_u + 1]) THEN ConExcepcion(e)
    ELSE TrasDemografia(
            [e EXCEPT !.usuarios_nota[idx_u + 1] =
                AsegurarServicios(ActualizarDemografia(@, fila, columnas, 1))],
            factura, idx_u, tipo_serv, idx_item, fila.vrServicio_nota)

\* one row handled without the test of lines 468-469 for a blank amount
ProcesarFilaSinSaltar(e, factura, fila, columnas) ==
    IF ~IntOk(fila.idx_usuario) THEN ConError(e, "idx_usuario_invalido")
    ELSE IF ~IntOk(fila.idx_item) THEN ConError(e, "idx_item_invalido")
    ELSE IF ~(0 <= IntDe(fila.idx_usuario)
                /\ IntDe(fila.idx_usuario) < Len(e.usuarios_nota))
    THEN ConError(e, "usuario_fuera_de_rango")
    ELSE FilaEnUsuario(e, factura, fila, columnas, IntDe(fila.idx_usuario),
                       fila.tipo_servicio, IntDe(fila.idx_item))

\* lines 453-570 for one row
ProcesarFila(e, factura, fila, columnas) ==
    IF ~IntOk(fila.idx_usuario) THEN ConError(e, "idx_usuario_invalido")
    ELSE IF ~IntOk(fila.idx_item) THEN ConError(e, "idx_item_invalido")
    ELSE IF IsNa(fila.vrServicio_nota) THEN e
    ELSE IF ~(0 <= IntDe(fila.idx_usuario)
                /\ IntDe(fila.idx_usuario) < Len(e.usuarios_nota))
    THEN ConError(e, "usuario_fuera_de_rango")
    ELSE FilaEnUsuario(e, factura, fila, columnas, IntDe(fila.idx_usuario),
                       fila.tipo_servicio, IntDe(fila.idx_item))

\* the loop over df.iterrows(); an exception ends it
RECURSIVE ProcesarFilas(_, _, _, _, _)
ProcesarFilas(e, factura, filas, columnas, k) ==
    IF k > Len(filas) \/ e.excepcion THEN e
    ELSE ProcesarFilas(ProcesarFila(e, factura, filas[k], columnas),
                       factura, filas, columnas, k + 1)

\* a check that lets a template through while one required column is there
FaltanTodasLasColumnas(columnas) ==
    \A c \in 1..Len(OBLIGATORIAS) : OBLIGATORIAS[c] \notin columnas

\* lines 442-446: the template lacks a required column
FaltanColumnas(columnas) ==
    \E c \in 1..Len(OBLIGATORIAS) : OBLIGATORIAS[c] \notin columnas

\* lines 572-575, or the exception that ended the loop
TrasFilas(nota, actualizados, e) ==
    IF e.excepcion
    THEN [nota |-> [nota EXCEPT !.usuarios = e.usuarios_nota],
          errores |-> e.errores, actualizados |-> actualizados,
          oid |-> e.oid, excepcion |-> TRUE]
    ELSE [nota |-> normalizar_codigos_usuarios(
                        [nota EXCEPT !.usuarios = e.usuarios_nota]),
          errores |-> e.errores, actualizados |-> e.updated_indices,
          oid |-> e.oid, excepcion |-> FALSE]

\* The result carries the returned nota and errores, the value left in
\* st.session_state["usuarios_actualizados_desde_excel"] (as a set), and
\* excepcion: an exception left the function; nota then holds what the rows
\* before it wrote in place.
aplicar_plantilla_servicios(nota, factura, plantilla, actualizados, oid) ==
    IF ~plantilla.legible
    THEN [nota |-> nota, errores |-> <<"no_leida">>, actualizados |-> actualizados,
          oid |-> oid, excepcion |-> FALSE]
    ELSE IF FaltanColumnas(plantilla.columnas)
    THEN [nota |-> nota, errores |-> <<"falta_columna">>, actualizados |-> actualizados,
          oid |-> oid, excepcion |-> FALSE]
    ELSE TrasFilas(nota, actualizados,
            ProcesarFilas(FilasInicial(nota.usuarios, actualizados, oid),
                          factura, plantilla.filas, plantilla.columnas, 1))

\* ----------------------------------------------- flatten (bulk template)

\* the keys a service item of the model may hold, in the order it holds them
CAMPOS_ITEM == <<"vrServicio", "valorPagoModerador", "codServicio">>

\* set(item.keys())
ClavesItem(item) == {CAMPOS_ITEM[c] : c \in {x \in 1..Len(CAMPOS_ITEM) : item[CAMPOS_ITEM[x]] # Absent}}

\* the entries of one list of servicios, as desglosar_servicios_usuario walks it
FilasDeLista(tipo_servicio, l) ==
    [j \in 1..Len(l) |-> [tipo_servicio |-> tipo_servicio, idx_item |-> j - 1, item |-> l[j]]]

\* lines 324-340 from the k-th key of servicios on
RECURSIVE DesglosarDesde(_, _)
DesglosarDesde(servicios, k) ==
    IF k > Len(ORDEN_CLAVES) THEN <<>>
    ELSE FilasDeLista(ORDEN_CLAVES[k], ItemsDe(servicios, ORDEN_CLAVES[k]))
            \o DesglosarDesde(servicios, k + 1)

\* One entry per (tipo_servicio, idx_item) of the patient; the values of the
\* expected keys are read from item where a row is built.  usuario is a dict
\* or None.
desglosar_servicios_usuario(usuario) ==
    IF usuario = None THEN <<>>
    ELSE IF ~EsDict(Get(usuario.servicios)) THEN <<>>
    ELSE DesglosarDesde(usuario.servicios, 1)

\* the dict items of the patients of doc from patient k on, in walking order
RECURSIVE ItemsDeDocumento(_, _)
ItemsDeDocumento(doc, k) ==
    IF doc = None THEN <<>>
    ELSE IF k > Len(doc.usuarios) THEN <<>>
    ELSE SelectSeq([j \in 1..Len(desglosar_servicios_usuario(doc.usuarios[k])) |->
                        desglosar_servicios_usuario(doc.usuarios[k])[j].item],
                   EsItem)
            \o ItemsDeDocumento(doc, k + 1)

\* lines 291-307 over the items in walking order: the keys of the first item
\* that has more keys than every item before it and no fewer than any after
MejoresClaves(items) ==
    IF \A j \in 1..Len(items) : ClavesItem(items[j]) = {} THEN {}
    ELSE ClavesItem(items[
            CHOOSE j \in 1..Len(items) :
                /\ \A i \in 1..Len(items) :
                        Cardinality(ClavesItem(items[i])) <= Cardinality(ClavesItem(items[j]))
                /\ \A i \in 1..(j - 1) :
                        Cardinality(ClavesItem(items[i])) < Cardinality(ClavesItem(items[j]))])

\* the result as a set: the rows read it by key
obtener_claves_servicio_esperadas(factura, nota) ==
    MejoresClaves(ItemsDeDocumento(factura, 1) \o ItemsDeDocumento(nota, 1))

\* what the spreadsheet gives back for a written value: an empty cell reads as NaN
Celda(v) == IF v = None \/ v = Absent \/ v = VStr(<<>>) THEN NaN ELSE v

\* fila[clave] of lines 333-335 for clave = "vrServicio", then f.get("vrServicio")
ValorVrServicio(item, claves_esperadas) ==
    IF "vrServicio" \notin claves_esperadas THEN None
    ELSE IF EsItem(item) THEN Get(item.vrServicio)
    ELSE None

\* agregar_campos_paciente for one campo (lines 368-374)
CampoPaciente(u_nota, u_fac, campo) ==
    IF u_nota # None /\ u_nota[campo] # Absent THEN u_nota[campo]
    ELSE IF u_fac # None /\ u_fac[campo] # Absent THEN u_fac[campo]
    ELSE None

\* the columns of a generated template that aplicar_plantilla_servicios reads
COLUMNAS_PLANTILLA == {OBLIGATORIAS[c] : c \in 1..Len(OBLIGATORIAS)} \cup Campos

\* one row of the template as the spreadsheet gives it back
FilaPlantilla(idx_u, f, vrServicio_nota, u_nota, u_fac) ==
    [c \in COLUMNAS_PLANTILLA |->
        CASE c = "idx_usuario" -> VInt(idx_u)
          [] c = "tipo_servicio" -> f.tipo_servicio
          [] c = "idx_item" -> VInt(f.idx_item)
          [] c = "vrServicio_nota" -> Celda(vrServicio_nota)
          [] OTHER -> Celda(CampoPaciente(u_nota, u_fac, c))]

\* lines 376-400, filas_nota and filas_fac being the entries of the two patients
FilasDeUsuario(idx_u, filas_nota, filas_fac, claves_esperadas, u_nota, u_fac) ==
    IF filas_nota # <<>>
    THEN [j \in 1..Len(filas_nota) |->
            FilaPlantilla(idx_u, filas_nota[j],
                          ValorVrServicio(filas_nota[j].item, claves_esperadas),
                          u_nota, u_fac)]
    ELSE [j \in 1..Len(filas_fac) |->
            FilaPlantilla(idx_u, filas_fac[j], None, u_nota, u_fac)]

\* usuarios_fac[idx_u] if 0 <= idx_u < len(usuarios_fac) else None
UsuarioFactura(factura, idx_u) ==
    IF factura = None THEN None
    ELSE IF idx_u < Len(factura.usuarios) THEN factura.usuarios[idx_u + 1]
    ELSE None

\* lines 356-400 from patient idx_u on
RECURSIVE FilasDesde(_, _, _, _)
FilasDesde(nota, factura, claves_esperadas, idx_u) ==
    IF idx_u >= Len(nota.usuarios) THEN <<>>
    ELSE FilasDeUsuario(idx_u,
                desglosar_servicios_usuario(nota.usuarios[idx_u + 1]),
                desglosar_servicios_usuario(UsuarioFactura(factura, idx_u)),
                claves_esperadas,
                nota.usuarios[idx_u + 1], UsuarioFactura(factura, idx_u))
            \o FilasDesde(nota, factura, claves_esperadas, idx_u + 1)

\* a table without rows has no columns
ComoPlantilla(filas) ==
    Plantilla(TRUE, IF filas = <<>> THEN {} ELSE COLUMNAS_PLANTILLA, filas)

\* The template the download button hands out, as pandas reads it when it is
\* uploaded unmodified.  The columns vrServicio_factura and
\* campos_faltantes_nota, which aplicar_plantilla_servicios never reads, are
\* left out.  The patients of both documents are dicts.
generar_plantilla_servicios(nota, factura) ==
    ComoPlantilla(FilasDesde(nota, factura,
                             obtener_claves_servicio_esperadas(factura, nota), 0))

\* sorted(mejor_keys): the expected keys in the order the rows name them
CLAVES_ORDENADAS == <<"codServicio", "valorPagoModerador", "vrServicio">>

\* lines 331-337: the expected keys item lacks; the cell is their names joined
\* by commas
CamposFaltantes(item, claves_esperadas) ==
    SelectSeq(CLAVES_ORDENADAS,
              LAMBDA c : c \in claves_esperadas /\ (~EsItem(item) \/ EsVacio(item[c])))

\* the flag of a row made from the invoice (line 396)
SIN_SERVICIOS == <<"USUARIO SIN SERVICIOS EN NOTA">>

\* map_fac.get((tipo_servicio, idx_item), {}).get("vrServicio") (lines 364-366, 378, 383)
VrServicioFactura(f, filas_fac, claves_esperadas) ==
    IF \E j \in 1..Len(filas_fac) :
            filas_fac[j].tipo_servicio = f.tipo_servicio /\ filas_fac[j].idx_item = f.idx_item
    THEN ValorVrServicio(
            filas_fac[CHOOSE j \in 1..Len(filas_fac) :
                        /\ filas_fac[j].tipo_servicio = f.tipo_servicio
                        /\ filas_fac[j].idx_item = f.idx_item].item,
            claves_esperadas)
    ELSE None

\* a row of the template as the function writes it, without the columns of
\* the patient
FilaGenerada(idx_u, f, vrServicio_factura, vrServicio_nota, campos_faltantes_nota) ==
    [idx_usuario |-> idx_u, tipo_servicio |-> f.tipo_servicio, idx_item |-> f.idx_item,
     vrServicio_factura |-> vrServicio_factura, vrServicio_nota |-> vrServicio_nota,
     campos_faltantes_nota |-> campos_faltantes_nota]

\* lines 379-387: the rows of a patient of the note
FilasGeneradasDeNota(idx_u, filas_nota, filas_fac, claves_esperadas) ==
    [j \in 1..Len(filas_nota) |->
        FilaGenerada(idx_u, filas_nota[j],
                     VrServicioFactura(filas_nota[j], filas_fac, claves_esperadas),
                     ValorVrServicio(filas_nota[j].item, claves_esperadas),
                     CamposFaltantes(filas_nota[j].item, claves_esperadas))]

\* lines 389-400: the rows made from the patient of the invoice
FilasGeneradasDeFactura(idx_u, filas_fac, claves_esperadas) ==
    [j \in 1..Len(filas_fac) |->
        FilaGenerada(idx_u, filas_fac[j],
                     ValorVrServicio(filas_fac[j].item, claves_esperadas), None,
                     SIN_SERVICIOS)]

\* rows for the lines of the note and for those of the invoice as well
FilasGeneradasDeAmbos(idx_u, filas_nota, filas_fac, claves_esperadas) ==
    FilasGeneradasDeNota(idx_u, filas_nota, filas_fac, claves_esperadas)
        \o FilasGeneradasDeFactura(idx_u, filas_fac, claves_esperadas)

\* lines 376-400
FilasGeneradasDeUsuario(idx_u, filas_nota, filas_fac, claves_esperadas) ==
    IF filas_nota # <<>>
    THEN FilasGeneradasDeNota(idx_u, filas_nota, filas_fac, claves_esperadas)
    ELSE FilasGeneradasDeFactura(idx_u, filas_fac, claves_esperadas)

\* lines 356-400 from patient idx_u on: the rows as written
RECURSIVE FilasGeneradasDesde(_, _, _, _)
FilasGeneradasDesde(nota, factura, claves_esperadas, idx_u) ==
    IF idx_u >= Len(nota.usuarios) THEN <<>>
    ELSE FilasGeneradasDeUsuario(idx_u,
                desglosar_servicios_usuario(nota.usuarios[idx_u + 1]),
                desglosar_servicios_usuario(UsuarioFactura(factura, idx_u)),
                claves_esperadas)
            \o FilasGeneradasDesde(nota, factura, claves_esperadas, idx_u + 1)

\* the rows generar_plantilla_servicios(nota, factura) writes to the sheet
FilasGeneradas(nota, factura) ==
    FilasGeneradasDesde(nota, factura, obtener_claves_servicio_esperadas(factura, nota), 0)

\* --------------------------------------------------------------- inputs

\* bounds of the model
MaxUsuarios == 2

\* the first object identity handed out to a copy; input items use less
OidInicial == 1000

\* the runs of main() a session is followed for
MaxPasos == 5

Usuario(tipo, num, d, servicios) ==
    [t |-> "usuario",
     tipoDocumentoIdentificacion |-> tipo,
     numDocumentoIdentificacion |-> num,
     tipoUsuario |-> d.tipoUsuario,
     fechaNacimiento |-> d.fechaNacimiento,
     codSexo |-> d.codSexo,
     codPaisResidencia |-> d.codPaisResidencia,
     codMunicipioResidencia |-> d.codMunicipioResidencia,
     codZonaTerritorialResidencia |-> d.codZonaTerritorialResidencia,
     codPaisOrigen |-> d.codPaisOrigen,
     incapacidad |-> d.incapacidad,
     consecutivo |-> d.consecutivo,
     servicios |-> servicios]

CC == VStr(<<"C", "C">>)
TI == VStr(<<"T", "I">>)
Uno == VStr(<<"1">>)
Dos == VStr(<<"2">>)
Vacio == VStr(<<>>)

\* demographic profiles of reference patients
FDemoCompleta ==
    [tipoUsuario |-> VStr(<<"0", "1">>),
     fechaNacimiento |->
        VStr(<<"2", "0", "0", "0", "-", "0", "1", "-", "0", "2", "T", "0", "0">>),
     codSexo |-> VStr(<<"M">>),
     codPaisResidencia |-> VStr(<<"1", "7", "0">>),
     codMunicipioResidencia |-> VStr(<<"5", "0", "0", "1">>),
     codZonaTerritorialResidencia |-> VInt(1),
     codPaisOrigen |-> VFlt(1700),
     incapacidad |-> VStr(<<"N", "O">>),
     consecutivo |-> VStr(<<"7">>)]

FDemoVacia ==
    [tipoUsuario |-> Absent,
     fechaNacimiento |-> None,
     codSexo |-> Vacio,
     codPaisResidencia |-> Absent,
     codMunicipioResidencia |-> None,
     codZonaTerritorialResidencia |-> Vacio,
     codPaisOrigen |-> Absent,
     incapacidad |-> None,
     consecutivo |-> Absent]

FDemoRara ==
    [tipoUsuario |-> None,
     fechaNacimiento |-> VInt(20000102),
     codSexo |-> VInt(1),
     codPaisResidencia |-> VStr(<<"1", "7", "0", "4">>),
     codMunicipioResidencia |-> VStr(<<"5", "A">>),
     codZonaTerritorialResidencia |-> VStr(<<"U">>),
     codPaisOrigen |-> VFlt(55),
     incapacidad |-> VStr(<<"S", "I">>),
     consecutivo |-> VStr(<<"x">>)]

\* demographic profiles of target patients
NDemoVacia ==
    [tipoUsuario |-> Absent,
     fechaNacimiento |-> Absent,
     codSexo |-> None,
     codPaisResidencia |-> Vacio,
     codMunicipioResidencia |-> Absent,
     codZonaTerritorialResidencia |-> None,
     codPaisOrigen |-> Vacio,
     incapacidad |-> Absent,
     consecutivo |-> None]

NDemoLlena ==
    [tipoUsuario |-> VStr(<<"0", "4">>),
     fechaNacimiento |-> VStr(<<"1", "9", "9", "9", "-", "1", "2", "-", "3", "1">>),
     codSexo |-> VStr(<<"F">>),
     codPaisResidencia |-> VStr(<<"0", "7", "6">>),
     codMunicipioResidencia |-> VStr(<<"1", "1", "0", "0", "1">>),
     codZonaTerritorialResidencia |-> VStr(<<"0", "2">>),
     codPaisOrigen |-> VStr(<<"0", "7", "6">>),
     incapacidad |-> VStr(<<"S", "I">>),
     consecutivo |-> VInt(3)]

NDemoRara ==
    [tipoUsuario |-> VStr(<<"1">>),
     fechaNacimiento |->
        VStr(<<"1", "9", "8", "0", "-", "0", "5", "-", "0", "6", " ", "1", "0">>),
     codSexo |-> Absent,
     codPaisResidencia |-> VInt(76),
     codMunicipioResidencia |-> VStr(<<"8", "0", "0", "1">>),
     codZonaTerritorialResidencia |-> VStr(<<"2">>),
     codPaisOrigen |-> VStr(<<"1", "7", "0", "4">>),
     incapacidad |-> None,
     consecutivo |-> VStr(<<" ", "1", "2">>)]

NDemoSinConsecutivo ==
    [NDemoRara EXCEPT !.consecutivo = VStr(<<"x">>), !.codPaisOrigen = VFlt(1700)]

\* service maps; base keeps the object identities of two patients apart
ServDos(base) ==
    Dict([k \in {"procedimientos", "consultas"} |->
        IF k = "procedimientos"
        THEN Lista(<< Item(base + 1, VInt(100), VInt(0), VStr(<<"A">>)),
                      Item(base + 2, VFlt(255), Absent, VStr(<<"B">>)) >>)
        ELSE Lista(<< Item(base + 3, VStr(<<"3", "0">>), None, VStr(<<"C">>)) >>)])

ServMixto(base) ==
    Dict([k \in {"consultas", "medicamentos", "otro"} |->
        IF k = "consultas" THEN None
        ELSE IF k = "medicamentos"
        THEN Lista(<< VStr(<<"x">>),
                      Item(base + 1, VInt(-40), VFlt(-5), VStr(<<"D">>)) >>)
        ELSE Lista(<< Item(base + 2, VInt(7), VInt(7), Absent) >>)])

ServVacio ==
    Dict([k \in {"consultas", "procedimientos"} |->
        IF k = "consultas" THEN Lista(<<>>) ELSE None])

ServConItems(base) ==
    Dict([k \in {"urgencias"} |->
        Lista(<< Item(base + 1, VInt(-9), VInt(1), VStr(<<"E">>)) >>)])

ServSoloOtro(base) ==
    Dict([k \in {"otro", "consultas"} |->
        IF k = "otro" THEN Lista(<< Item(base + 1, VInt(5), Absent, Absent) >>)
        ELSE VStr(<<"x">>)])

\* the reference patients a document may hold at a position
PacientesFactura(base) ==
    { Usuario(CC, Uno, FDemoCompleta, ServDos(base)),
      Usuario(TI, Uno, FDemoRara, ServMixto(base)),
      Usuario(None, Uno, FDemoVacia, Absent),
      Usuario(CC, Vacio, FDemoCompleta, ServDos(base)),
      Usuario(CC, Uno, FDemoVacia, ServMixto(base)) }

\* the target patients a document may hold at a position
PacientesNota(base) ==
    { Usuario(CC, Uno, NDemoVacia, Absent),
      Usuario(Absent, Uno, NDemoLlena, ServConItems(base)),
      Usuario(CC, Absent, NDemoRara, ServVacio),
      Usuario(TI, Dos, NDemoRara, ServSoloOtro(base)),
      Usuario(TI, Uno, NDemoSinConsecutivo, ServVacio),
      None }

RECURSIVE Documentos(_, _, _)
\* the user lists of length n whose patient at position i is in pac(base0 + 10 i)
Documentos(pac(_), base0, n) ==
    IF n = 0 THEN {<<>>}
    ELSE {Append(l, u) : l \in Documentos(pac, base0, n - 1),
                         u \in pac(base0 + 10 * n)}

DocsFactura ==
    UNION {{[usuarios |-> l] : l \in Documentos(PacientesFactura, 0, n)}
            : n \in 1..MaxUsuarios}

DocsNota ==
    UNION {{[usuarios |-> l] : l \in Documentos(PacientesNota, 500, n)}
            : n \in 1..MaxUsuarios}

\* ---------------------------------------------------------------- state

VARIABLES
    factura_data,    \* st.session_state["factura_data"], or the reference document
    nota_data,       \* st.session_state["nota_data"], or the target document
    resumen,         \* the summary of the last reconciliation
    op,              \* the last operation and its inputs
    factura_antes,   \* the reference document before the last operation
    nota_antes,      \* the target document before the last operation
    tras_copia,      \* the target patients at line 244, before the final normalization
    emparejado,      \* per target patient, the position of its reference patient, or 0
    sig_oid,         \* the next fresh object identity
    factura_name,    \* st.session_state["factura_name"]
    nota_name,       \* st.session_state["nota_name"]
    usuarios_actualizados_desde_excel,  \* the session entry of that name, as a set
    nota_filtrada,   \* the last filtered note built for export
    errores,         \* the observations of the last template application
    pasos,           \* the runs of main() so far
    resultado        \* what the last call into afacturar_nota_credito returned or raised

\* the variables only the session changes
vars_sesion == <<factura_name, nota_name, usuarios_actualizados_desde_excel,
                 nota_filtrada, errores, pasos>>

\* the variables only the single-operation specification changes
vars_operacion == <<factura_antes, nota_antes, tras_copia, emparejado, sig_oid>>

vars == <<factura_data, nota_data, resumen, op, vars_operacion, vars_sesion, resultado>>

SinDoc == [usuarios |-> <<>>]

ResumenVacio ==
    [total_usuarios_factura |-> 0, total_usuarios_nota |-> 0,
     usuarios_modificados |-> 0, usuarios_ya_tenian_servicios |-> 0,
     usuarios_demografia_completada |-> 0, usuarios_sin_encontrar |-> <<>>]

\* Spec: each function is applied once to documents as loaded from JSON
Init ==
    /\ factura_data \in DocsFactura
    /\ nota_data \in DocsNota
    /\ resumen = ResumenVacio
    /\ op = [nombre |-> "inicio"]
    /\ factura_antes = factura_data
    /\ nota_antes = nota_data
    /\ tras_copia = <<>>
    /\ emparejado = <<>>
    /\ sig_oid = OidInicial
    /\ factura_name = None
    /\ nota_name = None
    /\ usuarios_actualizados_desde_excel = {}
    /\ nota_filtrada = None
    /\ errores = <<>>
    /\ pasos = 0
    /\ resultado = None

\* copiar_servicios_factura_a_nota(factura, nota, forzar_signo)
Copiar(forzar_signo) ==
    /\ op.nombre = "inicio"
    /\ \E r \in {copiar_servicios_factura_a_nota(factura_data, nota_data,
                                                forzar_signo, sig_oid)} :
           /\ nota_data' = r.nota
           /\ factura_data' = r.factura
           /\ resumen' = r.resumen
           /\ tras_copia' = r.tras_copia
           /\ emparejado' = r.emparejado
           /\ sig_oid' = r.oid
    /\ op' = [nombre |-> "copiar", forzar_signo |-> forzar_signo]
    /\ factura_antes' = factura_data
    /\ nota_antes' = nota_data
    /\ UNCHANGED vars_sesion
    /\ UNCHANGED resultado

\* normalizar_codigos_usuarios(nota)
NormalizarCodigos ==
    /\ op.nombre = "inicio"
    /\ nota_data' = normalizar_codigos_usuarios(nota_data)
    /\ op' = [nombre |-> "normalizar_codigos"]
    /\ nota_antes' = nota_data
    /\ UNCHANGED <<factura_data, resumen, factura_antes, tras_copia, emparejado, sig_oid>>
    /\ UNCHANGED vars_sesion
    /\ UNCHANGED resultado

\* normalizar_documento_servicios(nota)
NormalizarServicios ==
    /\ op.nombre = "inicio"
    /\ nota_data' = normalizar_documento_servicios(nota_data)
    /\ op' = [nombre |-> "normalizar_servicios"]
    /\ nota_antes' = nota_data
    /\ UNCHANGED <<factura_data, resumen, factura_antes, tras_copia, emparejado, sig_oid>>
    /\ UNCHANGED vars_sesion
    /\ UNCHANGED resultado

\* the oids of the dict items of a document
OidsDe(doc) ==
    UNION {UNION {{ItemsDe(doc.usuarios[i].servicios, k)[j].oid :
                        j \in {x \in 1..Len(ItemsDe(doc.usuarios[i].servicios, k)) :
                                  EsItem(ItemsDe(doc.usuarios[i].servicios, k)[x])}}
                    : k \in Claves}
            : i \in {x \in 1..Len(doc.usuarios) : EsUsuario(doc.usuarios[x])}}

\* item["vrServicio"] = v on the object oid, seen through every reference to it
EscribirVr(doc, oid, v) ==
    [doc EXCEPT !.usuarios =
        [i \in 1..Len(doc.usuarios) |->
            IF ~EsUsuario(doc.usuarios[i]) \/ ~EsDict(doc.usuarios[i].servicios)
            THEN doc.usuarios[i]
            ELSE [doc.usuarios[i] EXCEPT !.servicios =
                Dict([k \in DOMAIN doc.usuarios[i].servicios.m |->
                    LET g == doc.usuarios[i].servicios.m[k]
                    IN  IF ~EsLista(g) THEN g
                        ELSE Lista([j \in 1..Len(g.l) |->
                                IF EsItem(g.l[j]) /\ g.l[j].oid = oid
                                THEN [g.l[j] EXCEPT !.vrServicio = v]
                                ELSE g.l[j]])])]]]

VALOR_EDITADO == VInt(999)

\* a caller edits, after a reconcile without forzar_signo, one service item of
\* the returned note
EditarItem ==
    /\ op.nombre = "copiar"
    /\ op.forzar_signo = 0
    /\ \E oid \in OidsDe(nota_data) :
        /\ nota_data' = EscribirVr(nota_data, oid, VALOR_EDITADO)
        /\ factura_data' = EscribirVr(factura_data, oid, VALOR_EDITADO)
        /\ op' = [nombre |-> "editar", oid |-> oid]
    /\ UNCHANGED <<resumen, factura_antes, nota_antes, tras_copia, emparejado, sig_oid>>
    /\ UNCHANGED vars_sesion
    /\ UNCHANGED resultado

Next ==
    \/ \E forzar_signo \in {0, 1, -1} : Copiar(forzar_signo)
    \/ NormalizarCodigos
    \/ NormalizarServicios
    \/ EditarItem

Spec == Init /\ [][Next]_vars

Max(S) == CHOOSE x \in S : \A y \in S : y <= x

\* -------------------------------------------------------------- session

(***************************************************************************)
(* main() runs once per interaction.  A run reads the widgets, works on    *)
(* st.session_state and ends at its last line, at st.stop() or at an       *)
(* uncaught exception; what it wrote to the session, in place or by        *)
(* assignment, stays.  The documents of a session are JSON objects with a  *)
(* list of usuarios, and no AttachedDocument template is uploaded.         *)
(* Nothing in a session shares a service item between two places that      *)
(* outlive a run (files are parsed afresh, the reconciliation and the      *)
(* template copy deeply), so the session keeps items without identity.     *)
(***************************************************************************)

SinIdentidadServicios(servicios) ==
    IF ~EsDict(servicios) THEN servicios
    ELSE Dict([k \in DOMAIN servicios.m |->
            IF ~EsLista(servicios.m[k]) THEN servicios.m[k]
            ELSE Lista([j \in 1..Len(servicios.m[k].l) |->
                    IF EsItem(servicios.m[k].l[j])
                    THEN [servicios.m[k].l[j] EXCEPT !.oid = 0]
                    ELSE servicios.m[k].l[j]])])

SinIdentidad(doc) ==
    IF doc = None THEN None
    ELSE [doc EXCEPT !.usuarios =
            [i \in 1..Len(doc.usuarios) |->
                IF EsUsuario(doc.usuarios[i])
                THEN [doc.usuarios[i] EXCEPT !.servicios = SinIdentidadServicios(@)]
                ELSE doc.usuarios[i]]]

\* sorted(S) for a set of indices below n
Sorted(S, n) == SelectSeq([i \in 1..n |-> i - 1], LAMBDA x : x \in S)

\* the indices of line 786, kept in their order
Dentro(nota, indices) ==
    SelectSeq(indices, LAMBDA i : 0 <= i /\ i < Len(nota.usuarios))

\* nota once the patients at dentro, which base holds normalized, are written
Compartidos(nota, dentro, base) ==
    [nota EXCEPT !.usuarios =
        [i \in 1..Len(nota.usuarios) |->
            IF \E j \in 1..Len(dentro) : dentro[j] = i - 1
            THEN base.usuarios[Max({j \in 1..Len(dentro) : dentro[j] = i - 1})]
            ELSE nota.usuarios[i]]]

\* what the call returns and leaves, base being the filtered note of line 793
ConBase(nota, dentro, base) ==
    [filtrada |-> base, nota |-> Compartidos(nota, dentro, base)]

\* lines 784-793 for the indices dentro
Filtrar(nota, dentro) ==
    ConBase(nota, dentro,
        normalizar_codigos_usuarios(normalizar_documento_servicios(
            [usuarios |-> [j \in 1..Len(dentro) |-> nota.usuarios[dentro[j] + 1]]])))

\* The result carries the filtered note, and nota as the call leaves it: the
\* filtered note holds the very patient objects of nota (line 787), so the two
\* normalizations of lines 791-792 act on them.
construir_nota_filtrada_por_indices(nota, indices) ==
    Filtrar(nota, Dentro(nota, indices))

\* an uploaded file: its name, whether json.load reads it, and what it holds
Archivo(name, legible, data) == [name |-> name, legible |-> legible, data |-> data]

\* s is st.session_state
cargar_json_en_estado(s, uploaded_file, state_key, name_key) ==
    IF uploaded_file = None THEN s
    ELSE IF s[name_key] = uploaded_file.name THEN s
    ELSE IF ~uploaded_file.legible THEN s
    ELSE [s EXCEPT ![state_key] = uploaded_file.data,
                   ![name_key] = uploaded_file.name]

\* lines 860-862
NormalizarFactura(s) ==
    IF s.factura_data = None THEN s
    ELSE [s EXCEPT !.factura_data = normalizar_documento_servicios(@)]

\* lines 863-866
NormalizarNota(s) ==
    IF s.nota_data = None THEN s
    ELSE [s EXCEPT !.nota_data =
            normalizar_codigos_usuarios(normalizar_documento_servicios(@))]

\* lines 859-866
NormalizacionesIniciales(s) == NormalizarNota(NormalizarFactura(s))

\* what a run leaves: the session, where the run ended, and what it showed
Salida(s, fin, r, filtrada, errs) ==
    [s |-> s, fin |-> fin, resumen |-> r, nota_filtrada |-> filtrada, errores |-> errs]

\* lines 927-930, r being what copiar_servicios_factura_a_nota returned
TrasRellenar(s, r) ==
    [s |-> [s EXCEPT
                !.factura_data = r.factura,
                !.nota_data = normalizar_codigos_usuarios(
                                normalizar_documento_servicios(r.nota))],
     resumen |-> r.resumen]

\* lines 922-930: the reconcile button
SeccionRellenar(s, w) ==
    IF s.factura_data # None /\ w.boton = "rellenar"
    THEN TrasRellenar(s, copiar_servicios_factura_a_nota(s.factura_data, s.nota_data,
                                                         w.signo, 0))
    ELSE [s |-> s, resumen |-> ResumenVacio]

\* lines 1001-1013 and 1023-1037: the two save buttons of the patient editor
SeccionEdicion(s, w) ==
    IF w.boton = "guardar_servicios" /\ w.texto.valido
    THEN [s EXCEPT !.nota_data = normalizar_codigos_usuarios(
            [@ EXCEPT !.usuarios[w.idx_sel + 1] =
                normalizar_servicios_usuario([@ EXCEPT !.servicios = w.texto.valor])])]
    ELSE IF w.boton = "guardar_usuario" /\ w.texto.valido /\ EsUsuario(w.texto.valor)
    THEN [s EXCEPT !.nota_data = normalizar_codigos_usuarios(
            [@ EXCEPT !.usuarios[w.idx_sel + 1] =
                normalizar_servicios_usuario(w.texto.valor)])]
    ELSE s

\* lines 1116-1132: the patients offered for export
Opciones(s) ==
    {idx \in s.usuarios_actualizados_desde_excel :
        /\ 0 <= idx /\ idx < Len(s.nota_data.usuarios)
        /\ tiene_lista_con_items(Get(s.nota_data.usuarios[idx + 1].servicios))}

\* lines 1179-1180, c being what line 1150 returned
ExportarSeleccion(c, seleccion) ==
    IF seleccion = {} THEN c
    ELSE construir_nota_filtrada_por_indices(
            c.nota, Sorted(seleccion, Len(c.nota.usuarios)))

\* lines 1150-1180, with opciones not empty
ExportarOpciones(nota, opciones, seleccion) ==
    ExportarSeleccion(
        construir_nota_filtrada_por_indices(nota, Sorted(opciones, Len(nota.usuarios))),
        seleccion \cap opciones)

\* lines 1116-1181, c being the note and the filtered note they leave
TrasExportar(s, r, errs, c) ==
    Salida([s EXCEPT !.nota_data = c.nota], "completo", r, c.filtrada, errs)

\* lines 1116-1181: the exports of the patients the template updated
ExportarActualizados(s, w, r, errs) ==
    TrasExportar(s, r, errs,
        IF Opciones(s) = {} THEN [filtrada |-> None, nota |-> s.nota_data]
        ELSE ExportarOpciones(s.nota_data, Opciones(s), w.seleccion))

\* lines 1089-1181
SeccionExportar(s, w, r, errs) ==
    ExportarActualizados([s EXCEPT !.nota_data = normalizar_codigos_usuarios(@)],
                         w, r, errs)

\* lines 1074-1077, a being what aplicar_plantilla_servicios returned or left
TrasAplicar(s, a) ==
    IF a.excepcion
    THEN [s |-> [s EXCEPT !.nota_data = a.nota], errores |-> <<>>, excepcion |-> TRUE]
    ELSE [s |-> [s EXCEPT
                    !.nota_data = normalizar_codigos_usuarios(
                                    normalizar_documento_servicios(a.nota)),
                    !.usuarios_actualizados_desde_excel = a.actualizados],
          errores |-> a.errores, excepcion |-> FALSE]

\* lines 1068-1077: the apply button
SeccionPlantilla(s, w) ==
    IF w.plantilla_file # None /\ w.boton = "aplicar"
    THEN TrasAplicar(s, aplicar_plantilla_servicios(s.nota_data, s.factura_data,
                            w.plantilla_file, s.usuarios_actualizados_desde_excel, 0))
    ELSE [s |-> s, errores |-> <<>>, excepcion |-> FALSE]

\* lines 1068-1181, a being what the apply section left
TrasPlantilla(a, w, r) ==
    IF a.excepcion THEN Salida(a.s, "excepcion_plantilla", r, None, <<>>)
    ELSE SeccionExportar(a.s, w, r, a.errores)

\* lines 944-1181, c being the session and the summary the reconcile section left
TrasResumen(c, w) ==
    IF \E i \in 1..Len(c.s.nota_data.usuarios) : ~EsUsuario(c.s.nota_data.usuarios[i])
    THEN \* generar_resumen_usuarios: u.get on a patient that is no dict
         Salida(c.s, "excepcion_resumen", c.resumen, None, <<>>)
    ELSE IF /\ c.s.factura_data # None
            /\ \E i \in 1..Len(c.s.factura_data.usuarios) :
                    ~EsUsuario(c.s.factura_data.usuarios[i])
    THEN \* obtener_claves_servicio_esperadas (lines 979 and 1059): the same on
         \* a patient of the invoice
         Salida(c.s, "excepcion_claves", c.resumen, None, <<>>)
    ELSE TrasPlantilla(
            SeccionPlantilla(IF c.s.nota_data.usuarios = <<>> THEN c.s
                             ELSE SeccionEdicion(c.s, w), w),
            w, c.resumen)

\* lines 871-1181, s being the session after the initial normalizations
TrasNormalizar(s, w) ==
    IF s.nota_data = None THEN Salida(s, "sin_nota", ResumenVacio, None, <<>>)
    ELSE TrasResumen(SeccionRellenar(s, w), w)

\* One run of main() on session s with the widgets w.
main(s, w) ==
    TrasNormalizar(
        NormalizacionesIniciales(
            cargar_json_en_estado(
                cargar_json_en_estado(s, w.factura_file, "factura_data", "factura_name"),
                w.nota_file, "nota_data", "nota_name")),
        w)

\* the files, templates and texts a session is offered

FacturaLegible ==
    Archivo(VStr(<<"f">>), TRUE,
        SinIdentidad([usuarios |-> << Usuario(CC, Uno, FDemoCompleta, ServDos(0)),
                                      Usuario(TI, Uno, FDemoRara, ServMixto(0)) >>]))

FacturaIlegible == Archivo(VStr(<<"g">>), FALSE, None)

FacturasSesion == {FacturaLegible, FacturaIlegible}

NotaDosPacientes ==
    Archivo(VStr(<<"n">>), TRUE,
        SinIdentidad([usuarios |-> << Usuario(CC, Uno, NDemoVacia, Absent),
                                      Usuario(TI, Dos, NDemoRara, ServSoloOtro(0)) >>]))

\* a file of the same name and other content
NotaMismoNombre ==
    Archivo(VStr(<<"n">>), TRUE,
        [usuarios |-> << Usuario(CC, Uno, NDemoSinConsecutivo, VStr(<<"x">>)) >>])

\* its second entry is no patient record
NotaConNulo ==
    Archivo(VStr(<<"m">>), TRUE,
        SinIdentidad([usuarios |-> << Usuario(Absent, Uno, NDemoLlena, ServConItems(0)),
                                      None >>]))

\* another note, whose patients all carry services
NotaOtra ==
    Archivo(VStr(<<"o">>), TRUE,
        SinIdentidad([usuarios |-> << Usuario(TI, Uno, NDemoLlena, ServConItems(0)),
                                      Usuario(CC, Dos, NDemoVacia, ServConItems(10)) >>]))

NotaSinUsuarios == Archivo(VStr(<<"v">>), TRUE, [usuarios |-> <<>>])

NotaIlegible == Archivo(VStr(<<"i">>), FALSE, None)

NotasSesion ==
    {NotaDosPacientes, NotaMismoNombre, NotaConNulo, NotaSinUsuarios, NotaIlegible,
     NotaOtra}

COLUMNAS == {"idx_usuario", "tipo_servicio", "idx_item", "vrServicio_nota",
             "codSexo", "consecutivo", "codPaisResidencia"}

\* the cells of the demographic columns of a row
Demo(codSexo, consecutivo, codPaisResidencia) ==
    [codSexo |-> codSexo, consecutivo |-> consecutivo,
     codPaisResidencia |-> codPaisResidencia]

SinDemo == Demo(NaN, NaN, NaN)

Fila(idx_usuario, tipo_servicio, idx_item, vrServicio_nota, d) ==
    [idx_usuario |-> idx_usuario, tipo_servicio |-> tipo_servicio,
     idx_item |-> idx_item, vrServicio_nota |-> vrServicio_nota,
     codSexo |-> d.codSexo, consecutivo |-> d.consecutivo,
     codPaisResidencia |-> d.codPaisResidencia]

\* rows that write a value, to a line taken from the invoice and to one of the note
PlantillaValores ==
    Plantilla(TRUE, COLUMNAS,
        << Fila(VInt(0), "consultas", VInt(0), VFlt(-505),
                Demo(VStr(<<"F">>), VFlt(40), VInt(76))),
           Fila(VFlt(10), "otro", VStr(<<"0">>), VStr(<<"7">>), SinDemo) >>)

\* rows the application refuses, one per observation
PlantillaObservaciones ==
    Plantilla(TRUE, COLUMNAS,
        << Fila(VStr(<<"x">>), "consultas", VInt(0), VInt(1), SinDemo),
           Fila(VInt(0), "consultas", NaN, VInt(1), SinDemo),
           Fila(VInt(0), "consultas", VInt(0), NaN, Demo(VStr(<<"M">>), NaN, NaN)),
           Fila(VInt(5), "consultas", VInt(0), VInt(1), SinDemo),
           Fila(VInt(0), "urgencias", VInt(0), VInt(1), Demo(NaN, VStr(<<"y">>), NaN)),
           Fila(VInt(0), "procedimientos", VInt(1), VStr(<<"a">>), SinDemo) >>)

\* a row whose idx_item counts from the end
PlantillaNegativa ==
    Plantilla(TRUE, COLUMNAS,
        << Fila(VInt(0), "procedimientos", VInt(0), VInt(-100), SinDemo),
           Fila(VInt(1), "medicamentos", VInt(-1), VInt(3), SinDemo) >>)

PlantillaSinColumna == Plantilla(TRUE, COLUMNAS \ {"idx_item"}, <<>>)

PlantillaIlegible == Plantilla(FALSE, {}, <<>>)

PlantillasSesion ==
    {PlantillaValores, PlantillaObservaciones, PlantillaNegativa,
     PlantillaSinColumna, PlantillaIlegible}

\* the content of a text area: whether json.loads reads it, and what it gives
Texto(valido, valor) == [valido |-> valido, valor |-> valor]

SinTexto == Texto(FALSE, None)

ServParcial ==
    Dict([k \in {"consultas", "urgencias", "otro"} |->
        IF k = "consultas" THEN VStr(<<"x">>)
        ELSE IF k = "urgencias"
        THEN Lista(<< Item(0, VInt(-9), VInt(1), VStr(<<"E">>)) >>)
        ELSE VInt(3)])

TextosServicios ==
    {SinTexto, Texto(TRUE, Lista(<<>>)), Texto(TRUE, ServParcial)}

TextosUsuario ==
    {SinTexto, Texto(TRUE, Lista(<<>>)),
     Texto(TRUE, Usuario(TI, Uno, NDemoLlena, ServParcial)),
     Texto(TRUE, Usuario(CC, Dos, NDemoVacia, VInt(1)))}

\* st.session_state
Sesion ==
    [factura_data |-> factura_data, factura_name |-> factura_name,
     nota_data |-> nota_data, nota_name |-> nota_name,
     usuarios_actualizados_desde_excel |-> usuarios_actualizados_desde_excel]

\* The widgets of a run started by boton.  The uploaders of such a run hold
\* what they held in the run before: files whose names the session already
\* carries, or that json.load did not read, so that cargar_json_en_estado
\* returns at line 802, 806 or 811 as it does for no file.
Widgets(boton) ==
    [factura_file |-> None, nota_file |-> None, plantilla_file |-> None,
     boton |-> boton, signo |-> 0, idx_sel |-> 0, texto |-> SinTexto,
     seleccion |-> {}]

\* the session before any file: main() has run once and stopped at line 873
InitSesion ==
    /\ factura_data = None
    /\ factura_name = None
    /\ nota_data = None
    /\ nota_name = None
    /\ usuarios_actualizados_desde_excel = {}
    /\ nota_filtrada = None
    /\ errores = <<>>
    /\ pasos = 0
    /\ resultado = None
    /\ resumen = ResumenVacio
    /\ op = [nombre |-> "inicio", fin |-> "sin_nota"]
    /\ factura_antes = SinDoc
    /\ nota_antes = SinDoc
    /\ tras_copia = <<>>
    /\ emparejado = <<>>
    /\ sig_oid = OidInicial

\* one run of main() with the widgets w, started by the interaction nombre
Ejecutar(nombre, w) ==
    /\ pasos' = pasos + 1
    /\ \E r \in {main(Sesion, w)} :
        /\ factura_data' = SinIdentidad(r.s.factura_data)
        /\ factura_name' = r.s.factura_name
        /\ nota_data' = SinIdentidad(r.s.nota_data)
        /\ nota_name' = r.s.nota_name
        /\ usuarios_actualizados_desde_excel' = r.s.usuarios_actualizados_desde_excel
        /\ nota_filtrada' = SinIdentidad(r.nota_filtrada)
        /\ errores' = r.errores
        /\ resumen' = r.resumen
        /\ op' = [nombre |-> nombre, fin |-> r.fin]
    /\ UNCHANGED vars_operacion
    /\ UNCHANGED resultado

\* the session is followed for one more run
Sigue == pasos < MaxPasos

\* the last run drew the sections below the summary of line 944
EditorVisible == op.fin \in {"completo", "excepcion_plantilla"}

\* the patients of the session's note
NumUsuarios == IF nota_data = None THEN 0 ELSE Len(nota_data.usuarios)

\* the invoice uploader gets the file f
SubirFactura(f) ==
    /\ Sigue
    /\ Ejecutar("subir_factura", [Widgets("ninguno") EXCEPT !.factura_file = f])

\* the note uploader gets the file f
SubirNota(f) ==
    /\ Sigue
    /\ Ejecutar("subir_nota", [Widgets("ninguno") EXCEPT !.nota_file = f])

\* a widget no section acts upon without its button changes: the template
\* uploader, the sign choice, the patient index, a text area
Recargar ==
    /\ Sigue
    /\ Ejecutar("recargar", Widgets("ninguno"))

\* line 922: "Rellenar servicios vacios + datos paciente desde factura"
PulsarRellenar(signo) ==
    /\ Sigue
    /\ op.fin # "sin_nota"
    /\ factura_data # None
    /\ Ejecutar("rellenar", [Widgets("rellenar") EXCEPT !.signo = signo])

\* line 1001: "Guardar SOLO servicios de este usuario"
PulsarGuardarServicios(idx_sel, texto) ==
    /\ Sigue
    /\ EditorVisible
    /\ Ejecutar("guardar_servicios",
                [Widgets("guardar_servicios") EXCEPT !.idx_sel = idx_sel,
                                                     !.texto = texto])

\* line 1023: "Guardar usuario completo (NOTA)"
PulsarGuardarUsuario(idx_sel, texto) ==
    /\ Sigue
    /\ EditorVisible
    /\ Ejecutar("guardar_usuario",
                [Widgets("guardar_usuario") EXCEPT !.idx_sel = idx_sel,
                                                   !.texto = texto])

\* line 1068: "Aplicar cambios desde plantilla", the uploader holding p
PulsarAplicar(p) ==
    /\ Sigue
    /\ EditorVisible
    /\ Ejecutar("aplicar", [Widgets("aplicar") EXCEPT !.plantilla_file = p])

\* line 1174: the multiselect of patients to export gets a selection
Seleccionar(seleccion) ==
    /\ Sigue
    /\ op.fin = "completo"
    /\ seleccion # {}
    /\ seleccion \subseteq Opciones(Sesion)
    /\ Ejecutar("seleccionar", [Widgets("ninguno") EXCEPT !.seleccion = seleccion])

NextSesion ==
    \/ \E f \in FacturasSesion : SubirFactura(f)
    \/ \E f \in NotasSesion : SubirNota(f)
    \/ Recargar
    \/ \E signo \in {0, 1, -1} : PulsarRellenar(signo)
    \/ \E idx_sel \in 0..(NumUsuarios - 1), texto \in TextosServicios :
            PulsarGuardarServicios(idx_sel, texto)
    \/ \E idx_sel \in 0..(NumUsuarios - 1), texto \in TextosUsuario :
            PulsarGuardarUsuario(idx_sel, texto)
    \/ \E p \in PlantillasSesion : PulsarAplicar(p)
    \/ \E seleccion \in SUBSET (0..(NumUsuarios - 1)) : Seleccionar(seleccion)

SpecSesion == InitSesion /\ [][NextSesion]_vars

\* ------------------------------------------- the template functions alone

\* service maps whose amounts are floats, blank or not numbers
ServFlotantes(base) ==
    Dict([k \in {"consultas", "otro"} |->
        IF k = "consultas"
        THEN Lista(<< Item(base + 1, VFlt(505), VInt(2), VStr(<<"A">>)),
                      Item(base + 2, None, Absent, Absent) >>)
        ELSE Lista(<< Item(base + 3, VStr(<<"x">>), VInt(1), Absent),
                      Item(base + 4, VFlt(-70), Absent, VStr(<<"B">>)) >>)])

\* the target patients of a note the template is made from or applied to
PacientesNotaPlantilla(base) ==
    { Usuario(CC, Uno, NDemoLlena, ServDos(base)),
      Usuario(TI, Dos, NDemoVacia, ServVacio),
      Usuario(CC, Uno, NDemoRara, Absent),
      Usuario(TI, Uno, NDemoLlena, ServFlotantes(base)) }

\* the reference patients of the invoice given along
PacientesFacturaPlantilla(base) ==
    { Usuario(TI, Dos, FDemoCompleta, ServSoloOtro(base)),
      Usuario(CC, Uno, FDemoRara, ServMixto(base)),
      Usuario(CC, Dos, FDemoVacia, ServDos(base)) }

NotasPlantilla ==
    UNION {{[usuarios |-> l] : l \in Documentos(PacientesNotaPlantilla, 500, n)}
            : n \in 1..MaxUsuarios}

\* factura is None when no invoice was loaded
FacturasPlantilla ==
    {None} \cup
    UNION {{[usuarios |-> l] : l \in Documentos(PacientesFacturaPlantilla, 0, n)}
            : n \in 1..MaxUsuarios}

\* the columns of a template that carries the document of the patient
COLUMNAS_DOCUMENTO ==
    {"idx_usuario", "tipo_servicio", "idx_item", "vrServicio_nota",
     "tipoDocumentoIdentificacion", "numDocumentoIdentificacion"}

FilaConDocumento(idx_usuario, tipo_servicio, idx_item, vrServicio_nota, tipo, num) ==
    [idx_usuario |-> idx_usuario, tipo_servicio |-> tipo_servicio,
     idx_item |-> idx_item, vrServicio_nota |-> vrServicio_nota,
     tipoDocumentoIdentificacion |-> tipo, numDocumentoIdentificacion |-> num]

\* one row that names the patient CC 1 and a line the note may lack
PlantillaConDocumento ==
    Plantilla(TRUE, COLUMNAS_DOCUMENTO,
        << FilaConDocumento(VInt(0), "otro", VInt(0), VInt(3), CC, Uno) >>)

\* the same row without the document columns
PlantillaPosicional ==
    Plantilla(TRUE, COLUMNAS,
        << Fila(VInt(0), "otro", VInt(0), VInt(3), SinDemo) >>)

\* rows without an amount: with demographic cells, between rows that write,
\* and with indices that are not numbers
PlantillaEnBlanco ==
    Plantilla(TRUE, COLUMNAS,
        << Fila(VInt(0), "procedimientos", VInt(0), NaN,
                Demo(VStr(<<"M">>), VInt(9), VInt(76))),
           Fila(VInt(0), "procedimientos", VInt(1), VInt(8), SinDemo),
           Fila(VInt(7), "consultas", VInt(0), NaN, SinDemo) >>)

PlantillaEnBlancoSinIndice ==
    Plantilla(TRUE, COLUMNAS,
        << Fila(VStr(<<"x">>), "consultas", VInt(0), NaN, SinDemo),
           Fila(VInt(0), "consultas", NaN, NaN, SinDemo) >>)

\* one row that points past the first line of a group
PlantillaSegundaLinea ==
    Plantilla(TRUE, COLUMNAS,
        << Fila(VInt(0), "procedimientos", VInt(1), VInt(9), SinDemo) >>)

PlantillasFuncion ==
    {PlantillaValores, PlantillaObservaciones, PlantillaNegativa,
     PlantillaSinColumna, PlantillaIlegible, PlantillaConDocumento,
     PlantillaPosicional, PlantillaEnBlanco, PlantillaEnBlancoSinIndice,
     PlantillaSegundaLinea}

\* SpecPlantilla: a note and an invoice as loaded from JSON, and the session
\* entry of the updated patients as an earlier application may have left it
InitPlantilla ==
    /\ factura_data \in FacturasPlantilla
    /\ nota_data \in NotasPlantilla
    /\ resumen = ResumenVacio
    /\ op = [nombre |-> "inicio"]
    /\ factura_antes = factura_data
    /\ nota_antes = nota_data
    /\ tras_copia = <<>>
    /\ emparejado = <<>>
    /\ sig_oid = OidInicial
    /\ factura_name = None
    /\ nota_name = None
    /\ usuarios_actualizados_desde_excel \in {{}, {0}}
    /\ nota_filtrada = None
    /\ errores = <<>>
    /\ pasos = 0
    /\ resultado = None

\* what a call of aplicar_plantilla_servicios with plantilla leaves
Aplicado(nombre, plantilla, a) ==
    /\ nota_data' = a.nota
    /\ errores' = a.errores
    /\ usuarios_actualizados_desde_excel' = a.actualizados
    /\ sig_oid' = a.oid
    /\ op' = [nombre |-> nombre, plantilla |-> plantilla, excepcion |-> a.excepcion,
              actualizados |-> usuarios_actualizados_desde_excel]
    /\ factura_antes' = factura_data
    /\ nota_antes' = nota_data
    /\ UNCHANGED <<factura_data, resumen, tras_copia, emparejado>>
    /\ UNCHANGED <<factura_name, nota_name, nota_filtrada, pasos, resultado>>

\* aplicar_plantilla_servicios(nota, factura, plantilla)
Aplicar(plantilla) ==
    /\ op.nombre = "inicio"
    /\ Aplicado("aplicar", plantilla,
                aplicar_plantilla_servicios(nota_data, factura_data, plantilla,
                                            usuarios_actualizados_desde_excel, sig_oid))

\* the template generar_plantilla_servicios(nota, factura) makes is uploaded
\* as it was downloaded
IdaYVuelta ==
    /\ op.nombre = "inicio"
    /\ \E plantilla \in {generar_plantilla_servicios(nota_data, factura_data)} :
        Aplicado("ida_y_vuelta", plantilla,
                 aplicar_plantilla_servicios(nota_data, factura_data, plantilla,
                                             usuarios_actualizados_desde_excel, sig_oid))

\* generar_plantilla_servicios(nota, factura): the rows written
Generar ==
    /\ op.nombre = "inicio"
    /\ op' = [nombre |-> "generar", filas |-> FilasGeneradas(nota_data, factura_data)]
    /\ UNCHANGED <<factura_data, nota_data, resumen, vars_operacion, vars_sesion, resultado>>

NextPlantilla ==
    \/ \E plantilla \in PlantillasFuncion : Aplicar(plantilla)
    \/ IdaYVuelta
    \/ Generar

SpecPlantilla == InitPlantilla /\ [][NextPlantilla]_vars

\* ------------------------------------------------ afacturar_nota_credito.py
\* Texts are sequences of characters, as everywhere in this module.

\* the characters of the class [\r\n\t]
SALTOS == {"\r", "\n", "\t"}

\* the characters of the class \s the inputs use, which str.strip() removes too
ESPACIOS == SALTOS \cup {" ", "\f"}

\* the positions of s that are outside C or start a run of characters of C
Inicios(s, C) ==
    SelectSeq([i \in 1..Len(s) |-> i], LAMBDA i : s[i] \notin C \/ i = 1 \/ s[i - 1] \notin C)

\* re.sub(r"[\r\n\t]+", " ", s), p being Inicios(s, SALTOS)
SinSaltosEn(s, p) == [j \in 1..Len(p) |-> IF s[p[j]] \in SALTOS THEN " " ELSE s[p[j]]]

\* re.sub(r"\s{2,}", " ", s), p being Inicios(s, ESPACIOS): a run of one
\* character stays as it is
CompactadoEn(s, p) ==
    [j \in 1..Len(p) |->
        IF s[p[j]] \in ESPACIOS /\ p[j] < Len(s) /\ s[p[j] + 1] \in ESPACIOS
        THEN " " ELSE s[p[j]]]

\* s.strip(), p being the positions of s outside ESPACIOS
RecortadoEn(s, p) == IF p = <<>> THEN <<>> ELSE SubSeq(s, p[1], p[Len(p)])

StripEspacios(s) ==
    RecortadoEn(s, SelectSeq([i \in 1..Len(s) |-> i], LAMBDA i : s[i] \notin ESPACIOS))

SinSaltos(s) == SinSaltosEn(s, Inicios(s, SALTOS))

Compactado(s) == CompactadoEn(s, Inicios(s, ESPACIOS))

\* n spaces
Relleno(n) == [i \in 1..n |-> " "]

\* lines 37-38
Rellenado(s, min_len) ==
    IF min_len # 0 /\ Len(s) < min_len THEN s \o Relleno(min_len - Len(s)) ELSE s

\* _sanitize_text(s, min_len) for a text s
SanitizarTexto(s, min_len) == Rellenado(StripEspacios(Compactado(SinSaltos(s))), min_len)

\* _sanitize_text(v) for a value v: the text it returns
_sanitize_text(v) == IF v = None THEN <<>> ELSE SanitizarTexto(PyStr(v), 0)

\* "{'OBS':'Sin observación'}"
SIN_OBSERVACION ==
    << "{", "'", "O", "B", "S", "'", ":", "'", "S", "i", "n", " ", "o",
       "b", "s", "e", "r", "v", "a", "c", "i", "ó", "n", "'", "}" >>

\* the smaller of two numbers
Min2(a, b) == IF a <= b THEN a ELSE b

\* line 61, for a text that is not empty
Trozos(s, max_len) ==
    [c \in 1..((Len(s) + max_len - 1) \div max_len) |->
        SubSeq(s, (c - 1) * max_len + 1, Min2(c * max_len, Len(s)))]

\* a variant that drops a too-short last piece instead of merging it
DescartarUltimo(chunks, min_piece) ==
    IF Len(chunks[Len(chunks)]) < min_piece /\ Len(chunks) > 1
    THEN SubSeq(chunks, 1, Len(chunks) - 1)
    ELSE chunks

\* lines 62-64
UnirUltimo(chunks, min_piece) ==
    IF Len(chunks[Len(chunks)]) < min_piece /\ Len(chunks) > 1
    THEN [c \in 1..(Len(chunks) - 1) |->
            IF c = Len(chunks) - 1 THEN chunks[c] \o chunks[c + 1] ELSE chunks[c]]
    ELSE chunks

\* lines 65-66
RellenarUnico(chunks, min_piece) ==
    IF Len(chunks) = 1 /\ Len(chunks[1]) < min_piece
    THEN << chunks[1] \o Relleno(min_piece - Len(chunks[1])) >>
    ELSE chunks

\* lines 59-67, s being the sanitized text
PartirSaneado(s, max_len, min_piece) ==
    RellenarUnico(UnirUltimo(Trozos(IF s = <<>> THEN SIN_OBSERVACION ELSE s, max_len),
                             min_piece),
                  min_piece)

\* _split_nota_string(nota_str, max_len, min_piece), max_len >= 1
_split_nota_string(nota_str, max_len, min_piece) ==
    PartirSaneado(SanitizarTexto(nota_str, 0), max_len, min_piece)

\* the text of _nota_to_single_quote_string for the default note, up to the
\* value of OBS after "NC "
NOTA_POR_DEFECTO ==
    << "{", "'", "M", "O", "T", "I", "V", "O", "'", ":", "'", "N", "o",
       "t", "a", " ", "c", "r", "é", "d", "i", "t", "o", " ", "p", "a",
       "r", "c", "i", "a", "l", " ", "p", "o", "r", " ", "a", "j", "u",
       "s", "t", "e", " ", "d", "e", " ", "p", "r", "e", "c", "i", "o",
       "'", ",", "'", "S", "O", "P", "O", "R", "T", "E", "'", ":", "'",
       "G", "l", "o", "s", "a", " ", "p", "a", "r", "c", "i", "a", "l",
       " ", "s", "o", "b", "r", "e", " ", "s", "e", "r", "v", "i", "c",
       "i", "o", "s", "'", ",", "'", "O", "B", "S", "'", ":", "'", "N",
       "C", " " >>

\* line 52: every quote and backslash becomes a space (the pair \' becomes one
\* space, which _sanitize_text makes of two spaces as well)
SinComillas(s) == [i \in 1..Len(s) |-> IF s[i] \in {"'", "\\"} THEN " " ELSE s[i]]

\* lines 143-147: the default note for the document id_nota_credito
NotaPorDefecto(id_nota_credito) ==
    SubSeq(NOTA_POR_DEFECTO, 1, Len(NOTA_POR_DEFECTO) - 3)
        \o SanitizarTexto(SinComillas(<<"N", "C", " ">> \o PyStr(id_nota_credito)), 0)
        \o <<"'", "}">>

\* every character of s is a digit (s may be empty)
TodoDigitos(s) == \A i \in 1..Len(s) : EsDigito(s[i])

\* the positions of the character c in s
Posiciones(s, c) == SelectSeq([i \in 1..Len(s) |-> i], LAMBDA i : s[i] = c)

\* s matches patron, where "d" in patron stands for \d and a final "$" of the
\* regular expression also matches before a newline that ends s
Coincide(s, patron) ==
    \E t \in {s} \cup (IF s # <<>> /\ s[Len(s)] = "\n" THEN {SubSeq(s, 1, Len(s) - 1)} ELSE {}) :
        /\ Len(t) = Len(patron)
        /\ \A i \in 1..Len(t) : IF patron[i] = "d" THEN EsDigito(t[i]) ELSE t[i] = patron[i]

\* _DATE_RE, _TIME_RE, _TIME_HM_RE
DATE_RE == <<"d", "d", "d", "d", "-", "d", "d", "-", "d", "d">>
TIME_RE == <<"d", "d", ":", "d", "d", ":", "d", "d">>
TIME_HM_RE == <<"d", "d", ":", "d", "d">>

\* _DEC_RE.match(s), p being the positions of "." in s without a final newline
DecimalEn(t, p) ==
    IF p = <<>> THEN IsDigit(t)
    ELSE /\ Len(p) = 1
         /\ IsDigit(SubSeq(t, 1, p[1] - 1))
         /\ IsDigit(SubSeq(t, p[1] + 1, Len(t)))
         /\ Len(t) - p[1] <= 2

\* a check of the decimal string that asks only for digits around one point
DecimalLaxo(s) == s # <<>> /\ \A i \in 1..Len(s) : EsDigito(s[i]) \/ s[i] \in {".", "-"}

\* _DEC_RE.match(s): ^\d+(\.\d{1,2})?$
DecimalOk(s) ==
    \E t \in {IF s # <<>> /\ s[Len(s)] = "\n" THEN SubSeq(s, 1, Len(s) - 1) ELSE s} :
        DecimalEn(t, Posiciones(t, "."))

\* A float: nan, an infinity, or a finite number given by its sign and its
\* absolute value in thousandths (the sign is kept for a negative zero).
Nan == [t |-> "nan"]
Inf(neg) == [t |-> "inf", neg |-> neg]
Num(neg, mil) == [t |-> "num", neg |-> neg, mil |-> mil]

\* s in lower case, for the letters of nan, inf and infinity
Minusculas(s) ==
    [i \in 1..Len(s) |->
        CASE s[i] = "N" -> "n" [] s[i] = "A" -> "a" [] s[i] = "I" -> "i"
          [] s[i] = "F" -> "f" [] s[i] = "T" -> "t" [] s[i] = "Y" -> "y"
          [] OTHER -> s[i]]

ES_NAN == {<<"n", "a", "n">>}
ES_INF == {<<"i", "n", "f">>, <<"i", "n", "f", "i", "n", "i", "t", "y">>}

\* digits, with at most one point among them and a digit on one side of it
DecimalSinSignoEn(t, p) ==
    IF p = <<>> THEN IsDigit(t)
    ELSE /\ Len(p) = 1
         /\ TodoDigitos(SubSeq(t, 1, p[1] - 1))
         /\ TodoDigitos(SubSeq(t, p[1] + 1, Len(t)))
         /\ Len(t) > 1

\* float(s) does not raise, for the literals without exponent or underscore;
\* t is s stripped, without its sign
FloatTextoOkEn(t) ==
    \/ Minusculas(t) \in ES_NAN \cup ES_INF
    \/ DecimalSinSignoEn(t, Posiciones(t, "."))

FloatTextoOk(s) == FloatTextoOkEn(SinSigno(StripEspacios(s)))

\* the digits of a fraction as thousandths; the literals of the inputs have
\* at most three fraction digits
Milesimas(frac) == DigitosANat(SubSeq(frac \o <<"0", "0", "0">>, 1, 3))

\* the value of the finite literal t, p being the positions of its point
ValorEn(t, p) ==
    IF p = <<>> THEN 1000 * DigitosANat(t)
    ELSE 1000 * DigitosANat(SubSeq(t, 1, p[1] - 1)) + Milesimas(SubSeq(t, p[1] + 1, Len(t)))

\* float(s), t being s stripped and neg whether it starts with "-"
FloatTextoEn(t, neg) ==
    IF Minusculas(t) \in ES_NAN THEN Nan
    ELSE IF Minusculas(t) \in ES_INF THEN Inf(neg)
    ELSE Num(neg, ValorEn(t, Posiciones(t, ".")))

ConSigno(t) == FloatTextoEn(SinSigno(t), t # <<>> /\ t[1] = "-")

FloatTexto(s) == ConSigno(StripEspacios(s))

\* s.replace(",", ".")
ComasAPuntos(s) == [i \in 1..Len(s) |-> IF s[i] = "," THEN "." ELSE s[i]]

\* two digits
DosDigitos(n) == <<Digitos[(n \div 10) + 1], Digitos[(n % 10) + 1]>>

\* thousandths rounded to hundredths as the format does it for a value the
\* float holds exactly: half goes to the even neighbour
Centesimas(mil) ==
    IF mil % 10 > 5 \/ (mil % 10 = 5 /\ (mil \div 10) % 2 = 1) THEN mil \div 10 + 1
    ELSE mil \div 10

\* f"{num:.2f}" for hundredths h
DosDecimales(neg, h) ==
    (IF neg THEN <<"-">> ELSE <<>>) \o NatToStr(h \div 100) \o <<".">> \o DosDigitos(h % 100)

\* f"{num:.2f}"
Formato2f(num) ==
    CASE num.t = "nan" -> <<"n", "a", "n">>
      [] num.t = "inf" -> (IF num.neg THEN <<"-">> ELSE <<>>) \o <<"i", "n", "f">>
      [] OTHER -> DosDecimales(num.neg, Centesimas(num.mil))

\* a rendering that drops the sign and writes zero for what is no number
Formato2fSinSigno(num) ==
    CASE num.t = "num" -> DosDecimales(FALSE, Centesimas(num.mil))
      [] OTHER -> <<"0", ".", "0", "0">>

\* a _fmt_dec that leaves the commas where they are
FmtDecOkSinComas(val) ==
    CASE IsStr(val) -> FloatTextoOk(StripEspacios(val.s))
      [] IsInt(val) -> TRUE
      [] IsFlt(val) -> TRUE
      [] OTHER -> FALSE

\* _fmt_dec(val) does not raise
FmtDecOk(val) ==
    CASE IsStr(val) -> FloatTextoOk(ComasAPuntos(StripEspacios(val.s)))
      [] IsInt(val) -> TRUE
      [] IsFlt(val) -> TRUE
      [] OTHER -> FALSE

\* the float _fmt_dec(val) formats, where FmtDecOk(val)
FloatDeValor(val) ==
    CASE IsStr(val) -> FloatTexto(ComasAPuntos(StripEspacios(val.s)))
      [] IsInt(val) -> Num(val.n < 0, 1000 * Abs(val.n))
      [] OTHER -> Num(val.d < 0, 100 * Abs(val.d))

\* _fmt_dec(val, 2), where FmtDecOk(val)
_fmt_dec(val) == VStr(Formato2f(FloatDeValor(val)))

\* the arguments of _split_nota_string at line 148
MAX_LEN == 1000
MIN_PIECE == 15

\* line 125
REQ == <<"id_nota_credito", "fecha", "hora", "moneda", "tipo_operacion", "tipo_nota_credito">>

\* the monetary keys of a line of detalle_factura (lines 182-187)
CAMPOS_DETALLE ==
    <<"valor_unitario", "valor_total_detalle", "valor_total_detalle_con_cargo_descuento">>

\* The keys of _norm_totales (lines 205-211) that the sections of the model
\* carry, in their order; the other twelve are treated as valor_base is.
CAMPOS_TOTALES == <<"valor_base", "total_nota_credito", "valor_total_a_pagar">>

\* the closed lists of lines 132, 133, 156, 161, 235, 236
TIPOS_OPERACION == {<<"3", "5">>}
TIPOS_NOTA_CREDITO == {<<"1">>, <<"2">>, <<"3">>, <<"4">>, <<"5">>}
MODOS_TRANSPORTE == {<<"T", "E", "R", "R", "E", "S", "T", "R", "E">>}
TIPOS_VEHICULO ==
    {<<"A", "U", "T", "O", "B", "U", "S">>, <<"M", "I", "C", "R", "O", "B", "U", "S">>, <<"B", "U", "S">>}
TIPOS_AMBIENTE == {<<"1">>, <<"2">>}
TIPOS_RG == {<<"H", "T", "M", "L">>, <<"P", "D", "F">>, <<"P", "D", "F", "_", "P", "R", "O", "P", "I", "O">>}

\* what build leaves when it raises: the exception, the field and the text of
\* its message, and the caller's detalle_factura as the call left it
Falla(error, campo, mensaje, detalle_factura) ==
    [ok |-> FALSE, error |-> error, campo |-> campo, mensaje |-> mensaje,
     detalle_factura |-> detalle_factura]

\* one validation: error is "" when it passes
Chequeo(error, campo, mensaje) == [error |-> error, campo |-> campo, mensaje |-> mensaje]

\* the validations of a sequence that fail
Fallidos(chequeos) == SelectSeq(chequeos, LAMBDA c : c.error # "")

\* _assert_date, _assert_time_hms, _assert_time_hm: re.match(d or "") raises
\* TypeError for a truthy value that is no string
ErrorPatron(d, patron) ==
    IF IsStr(d) THEN (IF Coincide(d.s, patron) THEN "" ELSE "ValueError")
    ELSE IF Truthy(d) THEN "TypeError"
    ELSE "ValueError"

\* a check of a code that refuses nothing
ErrorEnumLaxo(val, allowed) == ""

\* _assert_enum(str(val), field, allowed)
ErrorEnum(val, allowed) == IF PyStr(val) \in allowed THEN "" ELSE "ValueError"

\* a test of a required field that only asks for the key
FaltaClaveEnEncabezado(encabezado, k) == encabezado[k] = Absent

\* line 127
FaltaEnEncabezado(encabezado, k) ==
    encabezado[k] = Absent \/ _sanitize_text(encabezado[k]) = <<>>

\* the required fields the loop of lines 126-128 would refuse, in its order
Faltantes(encabezado) == SelectSeq(REQ, LAMBDA k : FaltaEnEncabezado(encabezado, k))

\* lines 130-133
ChequeosEncabezado(encabezado) ==
    << Chequeo(ErrorPatron(encabezado.fecha, DATE_RE), "encabezado.fecha", "debe ser AAAA-MM-DD"),
       Chequeo(ErrorPatron(encabezado.hora, TIME_RE), "encabezado.hora", "debe ser HH:MM:SS"),
       Chequeo(ErrorEnum(encabezado.tipo_operacion, TIPOS_OPERACION),
               "encabezado.tipo_operacion", "invalido"),
       Chequeo(ErrorEnum(encabezado.tipo_nota_credito, TIPOS_NOTA_CREDITO),
               "encabezado.tipo_nota_credito", "invalido") >>

\* "".join(str(x) for x in l)
RECURSIVE Unir(_)
Unir(l) == IF l = <<>> THEN <<>> ELSE PyStr(Head(l)) \o Unir(Tail(l))

\* lines 136-147: nota_str
NotaStr(encabezado) ==
    IF EsLista(encabezado.nota)
    THEN IF encabezado.nota.l # <<>> THEN SanitizarTexto(Unir(encabezado.nota.l), 0)
         ELSE NotaPorDefecto(encabezado.id_nota_credito)
    ELSE IF Truthy(encabezado.nota) THEN SanitizarTexto(PyStr(encabezado.nota), 0)
    ELSE NotaPorDefecto(encabezado.id_nota_credito)

\* lines 151-154
FaltaEnServicio(servicio) ==
    \E k \in {"modo_transporte", "lugar_origen", "lugar_destino", "hora_salida", "datos_vehiculo"} :
        servicio[k] = Absent

\* lines 156-157
ChequeosServicio(servicio) ==
    << Chequeo(ErrorEnum(servicio.modo_transporte, MODOS_TRANSPORTE),
               "servicio.modo_transporte", "invalido"),
       Chequeo(ErrorPatron(servicio.hora_salida, TIME_HM_RE), "servicio.hora_salida", "debe ser HH:MM") >>

\* lines 164-166: the keys the loop would refuse, in its order
FaltantesDocumento(informacion_documento) ==
    SelectSeq(<<"id_documento", "fecha", "hora">>, LAMBDA k : informacion_documento[k] = Absent)

\* lines 167-168
ChequeosDocumento(informacion_documento) ==
    << Chequeo(ErrorPatron(informacion_documento.fecha, DATE_RE),
               "informacion_documento.fecha", "debe ser AAAA-MM-DD"),
       Chequeo(ErrorPatron(informacion_documento.hora, TIME_RE),
               "informacion_documento.hora", "debe ser HH:MM:SS") >>

\* line 171
Cude(informacion_documento) ==
    IF informacion_documento.codigo_unico_documento # Absent
    THEN informacion_documento.codigo_unico_documento
    ELSE IF informacion_documento.codigo_unico_factura # Absent
    THEN informacion_documento.codigo_unico_factura
    ELSE VStr(<<>>)

\* the exception of _fmt_dec(val), where ~FmtDecOk(val)
ErrorFmtDec(val) == IF IsStr(val) THEN "ValueError" ELSE "TypeError"

\* faulty variant: valor_total_detalle_con_cargo_descuento is left as given
RECURSIVE FormatearDetalleSinCargo(_, _, _)
FormatearDetalleSinCargo(detalle, i, c) ==
    IF i > Len(detalle) THEN [error |-> "", detalle |-> detalle]
    ELSE IF c > 2 THEN FormatearDetalleSinCargo(detalle, i + 1, 1)
    ELSE IF detalle[i][CAMPOS_DETALLE[c]] = Absent THEN FormatearDetalleSinCargo(detalle, i, c + 1)
    ELSE IF ~FmtDecOk(detalle[i][CAMPOS_DETALLE[c]])
    THEN [error |-> ErrorFmtDec(detalle[i][CAMPOS_DETALLE[c]]), detalle |-> detalle]
    ELSE FormatearDetalleSinCargo(
            [detalle EXCEPT ![i][CAMPOS_DETALLE[c]] = _fmt_dec(detalle[i][CAMPOS_DETALLE[c]])],
            i, c + 1)

\* lines 180-187 from key c of line i on: the lines are rewritten in place,
\* and an exception leaves the ones before it rewritten
RECURSIVE FormatearDetalle(_, _, _)
FormatearDetalle(detalle, i, c) ==
    IF i > Len(detalle) THEN [error |-> "", detalle |-> detalle]
    ELSE IF c > Len(CAMPOS_DETALLE) THEN FormatearDetalle(detalle, i + 1, 1)
    ELSE IF detalle[i][CAMPOS_DETALLE[c]] = Absent THEN FormatearDetalle(detalle, i, c + 1)
    ELSE IF ~FmtDecOk(detalle[i][CAMPOS_DETALLE[c]])
    THEN [error |-> ErrorFmtDec(detalle[i][CAMPOS_DETALLE[c]]), detalle |-> detalle]
    ELSE FormatearDetalle(
            [detalle EXCEPT ![i][CAMPOS_DETALLE[c]] = _fmt_dec(detalle[i][CAMPOS_DETALLE[c]])],
            i, c + 1)

\* line 199: k in nd and nd[k] not in (None, "")
ConValor(v) == v # Absent /\ v # None /\ v # VStr(<<>>)

\* _norm_totales(d, keys) from key c on (lines 196-201), on a copy of d
RECURSIVE NormTotales(_, _)
NormTotales(nd, c) ==
    IF c > Len(CAMPOS_TOTALES) THEN [error |-> "", nd |-> nd]
    ELSE IF ~ConValor(nd[CAMPOS_TOTALES[c]]) THEN NormTotales(nd, c + 1)
    ELSE IF ~FmtDecOk(nd[CAMPOS_TOTALES[c]])
    THEN [error |-> ErrorFmtDec(nd[CAMPOS_TOTALES[c]]), nd |-> nd]
    ELSE NormTotales([nd EXCEPT ![CAMPOS_TOTALES[c]] = _fmt_dec(nd[CAMPOS_TOTALES[c]])], c + 1)

\* a check of the two totals that lets every string with digits through
ErrorDecimalLaxo(v) ==
    IF v = Absent \/ v = None THEN "ValueError"
    ELSE IF IsStr(v) THEN (IF DecimalLaxo(v.s) THEN "" ELSE "ValueError")
    ELSE "TypeError"

\* _assert_decimal_string(d.get(k, ""), field) on a value _norm_totales left
ErrorDecimal(v) ==
    IF v = Absent \/ v = None THEN "ValueError"
    ELSE IF IsStr(v) THEN (IF DecimalOk(v.s) THEN "" ELSE "ValueError")
    ELSE "TypeError"

\* lines 215-216
ChequeosTotales(valor_nota_credito) ==
    << Chequeo(ErrorDecimal(valor_nota_credito.total_nota_credito),
               "valor_nota_credito.total_nota_credito", "debe ser numero con punto"),
       Chequeo(ErrorDecimal(valor_nota_credito.valor_total_a_pagar),
               "valor_nota_credito.valor_total_a_pagar", "debe ser numero con punto") >>

\* lines 231-233
FaltaEnGeneralidades(generalidades) ==
    \E k \in {"tipo_ambiente_dian", "version", "identificador_transmision", "rg_tipo"} :
        generalidades[k] = Absent

\* lines 235-236
ChequeosGeneralidades(generalidades) ==
    << Chequeo(ErrorEnum(generalidades.tipo_ambiente_dian, TIPOS_AMBIENTE),
               "generalidades.tipo_ambiente_dian", "invalido"),
       Chequeo(ErrorEnum(generalidades.rg_tipo, TIPOS_RG), "generalidades.rg_tipo", "invalido") >>

\* _sanitize_text(d.get(k, "")) as a value
Saneado(v) == VStr(_sanitize_text(IF v = Absent THEN VStr(<<>>) ELSE v))

\* the optional sections, in the order of the parameters (lines 107-113)
OPCIONALES ==
    <<"formas_de_pago", "cambio_de_moneda", "retenciones", "recargos",
      "cambio_de_moneda_totales", "entrega_de_bienes", "informacion_adquiriente">>

\* the truth value of a section: None, [] and {} are false
Verdadero(x) ==
    CASE x = None -> FALSE
      [] EsLista(x) -> x.l # <<>>
      [] EsDict(x) -> DOMAIN x.m # {}
      [] OTHER -> Truthy(x)

\* the section as data_nc holds it (lines 265-282): no key for a false one
Opcional(x) == IF Verdadero(x) THEN x ELSE Absent

\* the totals of a dict d as the record _norm_totales works on
TotalesDe(d) ==
    [k \in {CAMPOS_TOTALES[i] : i \in 1..Len(CAMPOS_TOTALES)} |->
        IF k \in DOMAIN d.m THEN d.m[k] ELSE Absent]

\* the dict d with the totals n.nd that _norm_totales left
ConTotales(d, n) ==
    [error |-> n.error,
     d |-> Dict([k \in DOMAIN d.m |-> IF k \in DOMAIN n.nd THEN n.nd[k] ELSE d.m[k]])]

\* lines 218-228: cambio_de_moneda_totales is reformatted when it is true
NormCambioTotales(d) ==
    IF Verdadero(d) /\ EsDict(d) THEN ConTotales(d, NormTotales(TotalesDe(d), 1))
    ELSE [error |-> "", d |-> d]

\* a cambio_de_moneda that takes any fecha_cambio
ErrorCambioDeMonedaLaxo(cambio_de_moneda) == ""

\* lines 267-269: the date of a cambio_de_moneda that is true
ErrorCambioDeMoneda(cambio_de_moneda) ==
    IF Verdadero(cambio_de_moneda) /\ EsDict(cambio_de_moneda)
            /\ "fecha_cambio" \in DOMAIN cambio_de_moneda.m
    THEN ErrorPatron(cambio_de_moneda.m["fecha_cambio"], DATE_RE)
    ELSE ""

\* lines 239-291
Payload(a, nota_partes, detalle, valor_nota_credito, cambio_de_moneda_totales) ==
    [ok |-> TRUE,
     documento_obligado |-> Saneado(a.documento_obligado),
     encabezado |->
        [id_nota_credito |-> Saneado(a.encabezado.id_nota_credito),
         fecha |-> Saneado(a.encabezado.fecha),
         hora |-> Saneado(a.encabezado.hora),
         nota |-> nota_partes,
         moneda |-> Saneado(a.encabezado.moneda),
         tipo_operacion |-> Saneado(a.encabezado.tipo_operacion),
         tipo_nota_credito |-> Saneado(a.encabezado.tipo_nota_credito),
         numero_orden |-> Saneado(a.encabezado.numero_orden),
         prefijo |-> Saneado(a.encabezado.prefijo)],
     servicio |-> a.servicio,
     informacion_documento |->
        [id_documento |-> Saneado(a.informacion_documento.id_documento),
         codigo_unico_documento |-> Saneado(Cude(a.informacion_documento)),
         fecha |-> Saneado(a.informacion_documento.fecha),
         hora |-> Saneado(a.informacion_documento.hora),
         codigo_tipo_documento |-> Saneado(a.informacion_documento.codigo_tipo_documento)],
     detalle_factura |-> detalle,
     impuestos |-> a.impuestos,
     descuentos |-> a.descuentos,
     valor_nota_credito |-> valor_nota_credito,
     formas_de_pago |-> Opcional(a.formas_de_pago),
     cambio_de_moneda |-> Opcional(a.cambio_de_moneda),
     retenciones |-> Opcional(a.retenciones),
     recargos |-> Opcional(a.recargos),
     cambio_de_moneda_totales |-> Opcional(cambio_de_moneda_totales),
     entrega_de_bienes |-> Opcional(a.entrega_de_bienes),
     informacion_adquiriente |-> Opcional(a.informacion_adquiriente),
     generalidades |-> a.generalidades]

\* lines 230-291
TrasTotales(a, nota_partes, detalle, valor_nota_credito, cambio_de_moneda_totales, fallidos) ==
    IF FaltaEnGeneralidades(a.generalidades)
    THEN Falla("ValueError", "generalidades", "requiere", detalle)
    ELSE IF fallidos # <<>>
    THEN Falla(fallidos[1].error, fallidos[1].campo, fallidos[1].mensaje, detalle)
    ELSE IF ErrorCambioDeMoneda(a.cambio_de_moneda) # ""
    THEN Falla(ErrorCambioDeMoneda(a.cambio_de_moneda), "cambio_de_moneda.fecha_cambio",
               "debe ser AAAA-MM-DD", detalle)
    ELSE Payload(a, nota_partes, detalle, valor_nota_credito, cambio_de_moneda_totales)

\* lines 218-291, c being what the reformatting of cambio_de_moneda_totales left
TrasCambioTotales(a, nota_partes, detalle, valor_nota_credito, c) ==
    IF c.error # ""
    THEN Falla(c.error, "cambio_de_moneda_totales", "Valor numerico invalido", detalle)
    ELSE TrasTotales(a, nota_partes, detalle, valor_nota_credito, c.d,
                     IF FaltaEnGeneralidades(a.generalidades) THEN <<>>
                     ELSE Fallidos(ChequeosGeneralidades(a.generalidades)))

\* lines 214-291, n being what _norm_totales left
TrasNormTotales(a, nota_partes, detalle, n, fallidos) ==
    IF n.error # "" THEN Falla(n.error, "valor_nota_credito", "Valor numerico invalido", detalle)
    ELSE IF fallidos # <<>>
    THEN Falla(fallidos[1].error, fallidos[1].campo, fallidos[1].mensaje, detalle)
    ELSE TrasCambioTotales(a, nota_partes, detalle, n.nd,
                           NormCambioTotales(a.cambio_de_moneda_totales))

\* lines 189-291, f being what the loop over the lines left
TrasDetalle(a, nota_partes, f) ==
    IF f.error # "" THEN Falla(f.error, "detalle_factura", "Valor numerico invalido", f.detalle)
    ELSE IF a.impuestos = <<>> THEN Falla("ValueError", "impuestos", "requiere", f.detalle)
    ELSE IF a.descuentos = <<>> THEN Falla("ValueError", "descuentos", "requiere", f.detalle)
    ELSE TrasNormTotales(a, nota_partes, f.detalle, NormTotales(a.valor_nota_credito, 1),
                         Fallidos(ChequeosTotales(NormTotales(a.valor_nota_credito, 1).nd)))

\* lines 163-291
TrasServicio(a, nota_partes, faltantes) ==
    IF faltantes # <<>>
    THEN Falla("ValueError", faltantes[1], "informacion_documento requerido", a.detalle_factura)
    ELSE IF Fallidos(ChequeosDocumento(a.informacion_documento)) # <<>>
    THEN Falla(Fallidos(ChequeosDocumento(a.informacion_documento))[1].error,
               Fallidos(ChequeosDocumento(a.informacion_documento))[1].campo,
               Fallidos(ChequeosDocumento(a.informacion_documento))[1].mensaje,
               a.detalle_factura)
    ELSE IF _sanitize_text(Cude(a.informacion_documento)) = <<>>
    THEN Falla("ValueError", "informacion_documento.codigo_unico_documento", "requiere",
               a.detalle_factura)
    ELSE IF a.detalle_factura = <<>>
    THEN Falla("ValueError", "detalle_factura", "al menos una linea", a.detalle_factura)
    ELSE TrasDetalle(a, nota_partes, FormatearDetalle(a.detalle_factura, 1, 1))

\* lines 158-161, the keys of servicio being there
DatosVehiculo(a, nota_partes, dv) ==
    IF dv = None THEN Falla("TypeError", "servicio.datos_vehiculo", "", a.detalle_factura)
    ELSE IF dv.codigo = Absent \/ dv.placa = Absent \/ dv.tipo = Absent
    THEN Falla("ValueError", "servicio.datos_vehiculo", "requiere", a.detalle_factura)
    ELSE IF ErrorEnum(dv.tipo, TIPOS_VEHICULO) # ""
    THEN Falla("ValueError", "servicio.datos_vehiculo.tipo", "invalido", a.detalle_factura)
    ELSE TrasServicio(a, nota_partes, FaltantesDocumento(a.informacion_documento))

\* lines 150-291
TrasNota(a, nota_partes) ==
    IF FaltaEnServicio(a.servicio)
    THEN Falla("ValueError", "servicio", "requiere", a.detalle_factura)
    ELSE IF Fallidos(ChequeosServicio(a.servicio)) # <<>>
    THEN Falla(Fallidos(ChequeosServicio(a.servicio))[1].error,
               Fallidos(ChequeosServicio(a.servicio))[1].campo,
               Fallidos(ChequeosServicio(a.servicio))[1].mensaje, a.detalle_factura)
    ELSE DatosVehiculo(a, nota_partes, a.servicio.datos_vehiculo)

\* lines 130-291, fallidos being the failed validations of the header
TrasRequeridos(a, fallidos) ==
    IF fallidos # <<>>
    THEN Falla(fallidos[1].error, fallidos[1].campo, fallidos[1].mensaje, a.detalle_factura)
    ELSE TrasNota(a, _split_nota_string(NotaStr(a.encabezado), MAX_LEN, MIN_PIECE))

\* lines 124-291, faltantes being the required fields that are missing
TrasFaltantes(a, faltantes) ==
    IF faltantes # <<>>
    THEN Falla("ValueError", faltantes[1], "encabezado requerido", a.detalle_factura)
    ELSE TrasRequeridos(a, Fallidos(ChequeosEncabezado(a.encabezado)))

\* construir_payload_nota_credito(**a): the payload (ok) or the exception
\* raised
construir_payload_nota_credito(a) == TrasFaltantes(a, Faltantes(a.encabezado))

\* ------------------------------------------- inputs of the payload builder

\* how far past MAX_LEN, and past twice MAX_LEN, the long notes go
MaxExceso == 16

\* the longest text and the largest max_len given to _split_nota_string alone
MaxLargoTexto == 12
MaxTrozo == 5

\* a text of n letters
Letras(n) == [i \in 1..n |-> "a"]

EncabezadoBase ==
    [id_nota_credito |-> VStr(<<"N", "C", "1">>),
     fecha |-> VStr(<<"2", "0", "2", "4", "-", "0", "1", "-", "3", "1">>),
     hora |-> VStr(<<"1", "0", ":", "2", "0", ":", "3", "0">>),
     moneda |-> VStr(<<"C", "O", "P">>),
     tipo_operacion |-> VStr(<<"3", "5">>),
     tipo_nota_credito |-> VStr(<<"1">>),
     nota |-> Absent,
     numero_orden |-> Absent,
     prefijo |-> VStr(<<"N", "C">>)]

\* what a required field holds when it is missing or blank
DEFECTOS == {Absent, None, VStr(<<" ", "\t">>)}

\* the headers that lack one or two required fields
EncabezadosIncompletos ==
    {[k \in DOMAIN EncabezadoBase |-> IF k \in {REQ[i], REQ[j]} THEN d ELSE EncabezadoBase[k]] :
        i \in 1..Len(REQ), j \in 1..Len(REQ), d \in DEFECTOS}

\* the headers with codes inside and outside the closed lists
EncabezadosConCodigos ==
    {[EncabezadoBase EXCEPT !.tipo_operacion = o, !.tipo_nota_credito = n] :
        o \in {VStr(<<"3", "5">>), VInt(35), VStr(<<"3", "6">>)},
        n \in {VStr(<<"1">>), VStr(<<"5">>), VStr(<<"9">>), VInt(3), VInt(0), VStr(<<" ", "1">>)}}

\* the headers with a date or a time that is not in its format
EncabezadosConFormato ==
    {[EncabezadoBase EXCEPT !.fecha = f, !.hora = h] :
        f \in {VStr(<<"2", "0", "2", "4", "-", "0", "1", "-", "3", "1">>), VStr(<<"2", "0", "2", "4", "-", "1", "-", "3", "1">>), VInt(20240131), VStr(<<"2", "0", "2", "4", "-", "0", "1", "-", "3", "1", "\n">>)},
        h \in {VStr(<<"1", "0", ":", "2", "0", ":", "3", "0">>), VStr(<<"1", "0", ":", "2", "0">>)}}

\* the headers that lack tipo_nota_credito and may have a date or a time that
\* is not in its format
EncabezadosMixtos ==
    {[e EXCEPT !.tipo_nota_credito = d] : e \in EncabezadosConFormato, d \in DEFECTOS}

\* the lengths of the long notes: around MAX_LEN and around twice MAX_LEN
LargosNota ==
    {MAX_LEN + d : d \in (-1)..MaxExceso} \cup {2 * MAX_LEN + d : d \in (-1)..MaxExceso}

\* the free-text notes
Notas ==
    {Absent, None, VStr(<<>>), VStr(<<"a", "b", "c">>), VStr(<<" ", "\n", " ">>), VStr(<<"A", "j", "u", "s", "t", "e", " ", " ", "p", "o", "r", "\n", " ", "g", "l", "o", "s", "a">>),
     Lista(<<VStr(<<"a", "b", "c">>), VInt(7), VStr(<<" ", " ", "d">>)>>), Lista(<<>>)}
        \cup {VStr(Letras(n)) : n \in LargosNota}
        \cup {VStr(Letras(MAX_LEN - 2) \o <<" ", "\n">> \o Letras(3) \o <<"\t">>)}

EncabezadosConNota == {[EncabezadoBase EXCEPT !.nota = n] : n \in Notas}

DatosVehiculoBase == [codigo |-> VStr(<<"B", "U", "S", "-", "0", "1">>), placa |-> VStr(<<"A", "B", "C", "1", "2", "3">>), tipo |-> VStr(<<"A", "U", "T", "O", "B", "U", "S">>)]

ServicioBase ==
    [modo_transporte |-> VStr(<<"T", "E", "R", "R", "E", "S", "T", "R", "E">>),
     lugar_origen |-> VStr(<<"B", "O", "G">>),
     lugar_destino |-> VStr(<<"M", "E", "D">>),
     hora_salida |-> VStr(<<"0", "7", ":", "3", "0">>),
     datos_vehiculo |-> DatosVehiculoBase]

Servicios ==
    {ServicioBase,
     [ServicioBase EXCEPT !.modo_transporte = VStr(<<"A", "E", "R", "E", "O">>)],
     [ServicioBase EXCEPT !.modo_transporte = VStr(<<"t", "e", "r", "r", "e", "s", "t", "r", "e">>)],
     [ServicioBase EXCEPT !.datos_vehiculo.tipo = VStr(<<"B", "U", "S">>)],
     [ServicioBase EXCEPT !.datos_vehiculo.tipo = VStr(<<"C", "A", "M", "I", "O", "N">>)],
     [ServicioBase EXCEPT !.datos_vehiculo.placa = Absent],
     [ServicioBase EXCEPT !.datos_vehiculo = None],
     [ServicioBase EXCEPT !.lugar_origen = Absent],
     [ServicioBase EXCEPT !.hora_salida = VStr(<<"7", ":", "3", "0">>)]}

GeneralidadesBase ==
    [tipo_ambiente_dian |-> VStr(<<"2">>),
     version |-> VStr(<<"V", "1">>),
     identificador_transmision |-> VStr(<<"T", "1">>),
     rg_tipo |-> VStr(<<"P", "D", "F">>)]

Generalidades ==
    {GeneralidadesBase,
     [GeneralidadesBase EXCEPT !.tipo_ambiente_dian = VInt(1)],
     [GeneralidadesBase EXCEPT !.tipo_ambiente_dian = VStr(<<"3">>)],
     [GeneralidadesBase EXCEPT !.rg_tipo = VStr(<<"P", "D", "F", "_", "P", "R", "O", "P", "I", "O">>)],
     [GeneralidadesBase EXCEPT !.rg_tipo = VStr(<<"X", "M", "L">>)],
     [GeneralidadesBase EXCEPT !.version = Absent]}

DocumentoBase ==
    [id_documento |-> VStr(<<"F", "1">>),
     fecha |-> VStr(<<"2", "0", "2", "4", "-", "0", "1", "-", "3", "1">>),
     hora |-> VStr(<<"1", "0", ":", "2", "0", ":", "3", "0">>),
     codigo_unico_documento |-> Absent,
     codigo_unico_factura |-> VStr(<<"C", "U", "F", "E">>),
     codigo_tipo_documento |-> Absent]

DocumentosAfectados ==
    {DocumentoBase,
     [DocumentoBase EXCEPT !.hora = Absent],
     [DocumentoBase EXCEPT !.fecha = VStr(<<"2", "0", "2", "4", "-", "1", "-", "3", "1">>)],
     [DocumentoBase EXCEPT !.codigo_unico_documento = VStr(<<" ", "\n", " ">>)]}

Linea(valor_unitario, valor_total_detalle, con_cargo_descuento) ==
    [valor_unitario |-> valor_unitario, valor_total_detalle |-> valor_total_detalle,
     valor_total_detalle_con_cargo_descuento |-> con_cargo_descuento]

Detalles ==
    { << Linea(VInt(100), VStr(<<"1", "0", "0", ",", "5">>), Absent) >>,
      << Linea(VFlt(125), VStr(<<"9", ".", "9", "9", "6">>), VStr(<<"7">>)), Linea(VStr(<<"x">>), VInt(1), Absent) >>,
      << >> }

\* the values a total may be given as; a literal with three fraction digits
\* that ends in 5 is one a float holds exactly
Totales ==
    {VStr(<<"1", "0", "0", ".", "0", "0">>), VStr(<<" ", "7", ",", "5", " ">>), VInt(3), VFlt(125), VStr(<<"0", ".", "1", "2", "5">>), VStr(<<"-", "5">>), VInt(-3), VFlt(-5), VStr(<<"-", "0", ".", "0", "0", "4">>),
     VStr(<<"n", "a", "n">>), VStr(<<"i", "n", "f">>), VStr(<<"-", "I", "n", "f", "i", "n", "i", "t", "y">>), VStr(<<"1", ".", "2", ".", "3">>), VStr(<<"x">>), VStr(<<" ", "\t">>), VStr(<<>>), None, Absent}

ValorBase == [valor_base |-> VStr(<<"1", "0", "0">>), total_nota_credito |-> VStr(<<"1", "0", "0", ".", "0", "0">>), valor_total_a_pagar |-> VInt(100)]

ValoresNotaCredito ==
    {[ValorBase EXCEPT !.total_nota_credito = t] : t \in Totales}
        \cup {[ValorBase EXCEPT !.valor_total_a_pagar = t] : t \in Totales}
        \cup {[ValorBase EXCEPT !.valor_base = t] : t \in {VStr(<<"-", "5">>), VStr(<<"x">>), Absent, None}}
        \cup {[ValorBase EXCEPT !.valor_base = VStr(<<"x">>), !.total_nota_credito = Absent]}

Args(encabezado, servicio, informacion_documento, detalle_factura, impuestos, valor_nota_credito, generalidades) ==
    [documento_obligado |-> VStr(<<"9", "0", "0">>),
     encabezado |-> encabezado,
     servicio |-> servicio,
     informacion_documento |-> informacion_documento,
     detalle_factura |-> detalle_factura,
     impuestos |-> impuestos,
     descuentos |-> << [codigo |-> 1] >>,
     valor_nota_credito |-> valor_nota_credito,
     generalidades |-> generalidades,
     formas_de_pago |-> None,
     cambio_de_moneda |-> None,
     retenciones |-> None,
     recargos |-> None,
     cambio_de_moneda_totales |-> None,
     entrega_de_bienes |-> None,
     informacion_adquiriente |-> None]

DetalleBase == << Linea(VInt(100), VStr(<<"1", "0", "0", ",", "5">>), Absent) >>
ImpuestosBase == << [codigo |-> 1] >>

\* arguments every check of build accepts
ArgsBase ==
    Args(EncabezadoBase, ServicioBase, DocumentoBase, DetalleBase, ImpuestosBase, ValorBase,
         GeneralidadesBase)

\* what the optional list sections are given as
ListasOpcionales == {None, Lista(<<>>), Lista(<< Dict([codigo |-> VStr(<<"x">>)]), VInt(7) >>)}

\* what cambio_de_moneda is given as
CambiosDeMoneda ==
    {None, DictVacio, Dict([tasa |-> VStr(<<"x">>)]),
     Dict([fecha_cambio |-> VStr(<<"2", "0", "2", "4", "-", "0", "1", "-", "3", "1">>)]),
     Dict([fecha_cambio |-> VStr(<<"2", "0", "2", "4", "-", "1", "-", "3", "1">>), tasa |-> VInt(4000)]),
     Dict([fecha_cambio |-> VInt(20240131)]),
     Dict([fecha_cambio |-> None]),
     Dict([fecha_cambio |-> VStr(<<>>)])}

\* what cambio_de_moneda_totales is given as
CambiosDeMonedaTotales ==
    {None, DictVacio,
     Dict([valor_base |-> VStr(<<"1", "0", "0">>)]),
     Dict([valor_base |-> VStr(<<"x">>)]),
     Dict([total_nota_credito |-> VStr(<<"-", "5">>), moneda |-> VStr(<<"x">>)]),
     Dict([valor_total_a_pagar |-> None, valor_base |-> VStr(<<>>)]),
     Dict([moneda |-> VStr(<<"U", "S", "D">>)])}

\* what entrega_de_bienes and informacion_adquiriente are given as
DictsOpcionales == {None, DictVacio, Dict([hora |-> VStr(<<"2", "5", ":", "9", "9">>), nombre |-> VInt(0)])}

\* the ways for a required section to fail after the totals
ArgsTardios ==
    {ArgsBase,
     [ArgsBase EXCEPT !.generalidades.rg_tipo = VStr(<<"X", "M", "L">>)],
     [ArgsBase EXCEPT !.generalidades.version = Absent]}

\* the arguments with optional sections
ArgsOpcionales ==
    {[a EXCEPT !.formas_de_pago = fp, !.cambio_de_moneda = cm, !.cambio_de_moneda_totales = ct] :
        a \in ArgsTardios, fp \in ListasOpcionales, cm \in CambiosDeMoneda,
        ct \in CambiosDeMonedaTotales}
    \cup {[ArgsBase EXCEPT !.retenciones = re, !.recargos = rc, !.entrega_de_bienes = eb,
                           !.informacion_adquiriente = ia] :
            re \in ListasOpcionales, rc \in ListasOpcionales, eb \in DictsOpcionales,
            ia \in DictsOpcionales}

\* lines with amounts written with commas
DetallesConComas ==
    {<< Linea(VStr(<<"4", ",", "9", "9", "2", ",", "0", "0", "0", ".", "5">>), VInt(1), Absent) >>,
     << Linea(VStr(<<"1", "9", "9", "2", "0", "0", "0", ",", "5", "0">>), VStr(<<"7", ",", "5">>), VStr(<<",", "5">>)) >>,
     << Linea(VInt(1), VStr(<<"1", "0", "0", ",", "5">>), Absent), Linea(VInt(2), VInt(2), VStr(<<"1", ".", "2", ",", "3">>)) >>,
     << Linea(VInt(1), Absent, VStr(<<"4", ",", "9", "9", "2", ",", "0", "0", "0", ".", "5">>)) >>}

\* the arguments with such lines
ArgsConComas ==
    {Args(EncabezadoBase, ServicioBase, DocumentoBase, d, ImpuestosBase, ValorBase, g) :
        d \in DetallesConComas,
        g \in {GeneralidadesBase, [GeneralidadesBase EXCEPT !.rg_tipo = VStr(<<"X", "M", "L">>)]}}

\* the strings given to _fmt_dec alone: a sign or a space, digits, a
\* separator, digits, a separator, digits and a space, each of them optional;
\* no fraction has a 5 as third digit, so every value is one that rounds as
\* its decimal digits say
TextosDecimales ==
    {sg \o a \o s1 \o b \o s2 \o c \o sp :
        sg \in {<<>>, <<"-">>, <<" ">>}, a \in {<<>>, <<"4">>, <<"1", "9", "9">>},
        s1 \in {<<>>, <<",">>, <<".">>}, b \in {<<>>, <<"5", "0">>, <<"9", "9", "2">>},
        s2 \in {<<>>, <<",">>, <<".">>}, c \in {<<>>, <<"7">>, <<"0", ".", "5">>},
        sp \in {<<>>, <<" ">>}}
    \cup {<<"1", "9", "9", "2", "0", "0", "0", ",", "5", "0">>, <<"4", ",", "9", "9", "2", ",", "0", "0", "0", ".", "5">>}

\* the arguments build is called with: each section varies alone, and with
\* the sections a claim relates it to
ArgsConstruir ==
    {Args(e, ServicioBase, DocumentoBase, DetalleBase, ImpuestosBase, ValorBase, GeneralidadesBase) :
        e \in EncabezadosIncompletos \cup EncabezadosConCodigos \cup EncabezadosConFormato
                \cup EncabezadosMixtos \cup EncabezadosConNota}
    \cup {Args(e, s, DocumentoBase, DetalleBase, ImpuestosBase, v, GeneralidadesBase) :
            e \in EncabezadosIncompletos \cup EncabezadosConFormato,
            s \in {ServicioBase, [ServicioBase EXCEPT !.modo_transporte = VStr(<<"A", "E", "R", "E", "O">>)]},
            v \in {ValorBase, [ValorBase EXCEPT !.total_nota_credito = Absent]}}
    \cup {Args(e, s, DocumentoBase, DetalleBase, ImpuestosBase, ValorBase, g) :
            e \in EncabezadosConCodigos, s \in Servicios, g \in Generalidades}
    \cup {Args(EncabezadoBase, ServicioBase, i, d, imp, v, g) :
            i \in DocumentosAfectados, d \in Detalles, imp \in {ImpuestosBase, <<>>},
            v \in ValoresNotaCredito, g \in {GeneralidadesBase, [GeneralidadesBase EXCEPT !.rg_tipo = VStr(<<"X", "M", "L">>)]}}
    \cup ArgsOpcionales
    \cup ArgsConComas

\* the texts given to _split_nota_string alone
TextosPartir ==
    {Letras(n) : n \in 0..MaxLargoTexto}
        \cup {<<" ", "a", "\t", "\n", " ", "b", " ", " ", "\f", "c", "\f", "d", "\n">>,
              <<" ", "\n", " ">>}

\* SpecPayload: one call into afacturar_nota_credito
InitPayload ==
    /\ factura_data = None
    /\ factura_name = None
    /\ nota_data = None
    /\ nota_name = None
    /\ usuarios_actualizados_desde_excel = {}
    /\ nota_filtrada = None
    /\ errores = <<>>
    /\ pasos = 0
    /\ resumen = ResumenVacio
    /\ op = [nombre |-> "inicio"]
    /\ factura_antes = SinDoc
    /\ nota_antes = SinDoc
    /\ tras_copia = <<>>
    /\ emparejado = <<>>
    /\ sig_oid = OidInicial
    /\ resultado = None

\* construir_payload_nota_credito(**a)
Construir(a) ==
    /\ op.nombre = "inicio"
    /\ op' = [nombre |-> "construir", a |-> a]
    /\ resultado' = construir_payload_nota_credito(a)
    /\ UNCHANGED <<factura_data, nota_data, resumen, vars_operacion, vars_sesion>>

\* _split_nota_string(nota_str, max_len, min_piece)
Partir(nota_str, max_len, min_piece) ==
    /\ op.nombre = "inicio"
    /\ op' = [nombre |-> "partir", nota_str |-> nota_str, max_len |-> max_len,
              min_piece |-> min_piece]
    /\ resultado' = _split_nota_string(nota_str, max_len, min_piece)
    /\ UNCHANGED <<factura_data, nota_data, resumen, vars_operacion, vars_sesion>>

\* _fmt_dec(val)
Formatear(val) ==
    /\ op.nombre = "inicio"
    /\ op' = [nombre |-> "fmt_dec", val |-> val]
    /\ resultado' =
            IF FmtDecOk(val) THEN [ok |-> TRUE, valor |-> _fmt_dec(val)]
            ELSE [ok |-> FALSE, error |-> ErrorFmtDec(val), mensaje |-> "Valor numerico invalido"]
    /\ UNCHANGED <<factura_data, nota_data, resumen, vars_operacion, vars_sesion>>

NextPayload ==
    \/ \E a \in ArgsConstruir : Construir(a)
    \/ \E s \in TextosDecimales : Formatear(VStr(s))
    \/ \E nota_str \in TextosPartir : \E max_len \in 1..MaxTrozo : \E min_piece \in 1..max_len :
            Partir(nota_str, max_len, min_piece)

SpecPayload == InitPayload /\ [][NextPayload]_vars

\* ------------------------------------ embedding in the AttachedDocument

\* A bytes value is the sequence of its bytes (0..255) and a str the sequence
\* of its code points; an ASCII character is its code in both.

\* "<cbc:Description" (line 713)
DESC_TAG == <<60, 99, 98, 99, 58, 68, 101, 115, 99, 114, 105, 112, 116, 105, 111, 110>>
\* "<![CDATA[" (lines 722, 730)
CDATA_INI == <<60, 33, 91, 67, 68, 65, 84, 65, 91>>
\* "]]></cbc:Description>" (line 733)
MARKER_END == <<93, 93, 62, 60, 47, 99, 98, 99, 58, 68, 101, 115, 99, 114, 105, 112, 116, 105, 111, 110, 62>>
\* "<CreditNote" (line 744)
CREDIT_NOTE == <<60, 67, 114, 101, 100, 105, 116, 78, 111, 116, 101>>
\* "<RipsDocumento" (lines 753, 761)
RIPS_DOCUMENTO == <<60, 82, 105, 112, 115, 68, 111, 99, 117, 109, 101, 110, 116, 111>>
\* " "
ESPACIO == 32

\* a continuation byte of UTF-8
EsContinuacion(bs, i) == i <= Len(bs) /\ bs[i] >= 128 /\ bs[i] <= 191

\* the length of the well-formed UTF-8 sequence at bs[i], 0 when there is none
LargoUtf8(bs, i) ==
    IF bs[i] < 128 THEN 1
    ELSE IF bs[i] >= 194 /\ bs[i] <= 223
    THEN (IF EsContinuacion(bs, i + 1) THEN 2 ELSE 0)
    ELSE IF bs[i] >= 224 /\ bs[i] <= 239
    THEN (IF /\ EsContinuacion(bs, i + 1) /\ EsContinuacion(bs, i + 2)
             /\ (bs[i] = 224 => bs[i + 1] >= 160)
             /\ (bs[i] = 237 => bs[i + 1] <= 159)
          THEN 3 ELSE 0)
    ELSE IF bs[i] >= 240 /\ bs[i] <= 244
    THEN (IF /\ EsContinuacion(bs, i + 1) /\ EsContinuacion(bs, i + 2)
             /\ EsContinuacion(bs, i + 3)
             /\ (bs[i] = 240 => bs[i + 1] >= 144)
             /\ (bs[i] = 244 => bs[i + 1] <= 143)
          THEN 4 ELSE 0)
    ELSE 0

\* the code point of the well-formed sequence of n bytes at bs[i]
PuntoUtf8(bs, i, n) ==
    CASE n = 1 -> bs[i]
      [] n = 2 -> (bs[i] % 32) * 64 + (bs[i + 1] % 64)
      [] n = 3 -> (bs[i] % 16) * 4096 + (bs[i + 1] % 64) * 64 + (bs[i + 2] % 64)
      [] OTHER -> (bs[i] % 8) * 262144 + (bs[i + 1] % 64) * 4096 + (bs[i + 2] % 64) * 64
                    + (bs[i + 3] % 64)

\* the positions of the bytes of bs that are no continuation bytes, in order
InicioDePuntos(bs) ==
    SelectSeq([i \in 1..Len(bs) |-> i], LAMBDA i : ~EsContinuacion(bs, i))

\* bs is well-formed UTF-8: every byte that is no continuation byte begins a
\* well-formed sequence, and every continuation byte belongs to the sequence
\* of the nearest such byte before it
Utf8Ok(bs) ==
    \A i \in 1..Len(bs) :
        IF EsContinuacion(bs, i)
        THEN \E k \in 1..3 :
                i - k >= 1 /\ ~EsContinuacion(bs, i - k) /\ LargoUtf8(bs, i - k) > k
        ELSE LargoUtf8(bs, i) > 0

\* the code points of the well-formed bs, whose sequences begin at inicios
PuntosDe(bs, inicios) ==
    [n \in 1..Len(inicios) |-> PuntoUtf8(bs, inicios[n], LargoUtf8(bs, inicios[n]))]

\* bs.decode("utf-8"): the text, or UnicodeDecodeError
DecodeUtf8(bs) ==
    IF Utf8Ok(bs) THEN [ok |-> TRUE, text |-> PuntosDe(bs, InicioDePuntos(bs))]
    ELSE [ok |-> FALSE, text |-> <<>>]

\* bs.decode("latin-1"): every byte is the code point of its value
DecodeLatin1(bs) == bs

\* the UTF-8 bytes of one code point
BytesDePunto(c) ==
    IF c < 128 THEN <<c>>
    ELSE IF c < 2048 THEN <<192 + (c \div 64), 128 + (c % 64)>>
    ELSE IF c < 65536 THEN <<224 + (c \div 4096), 128 + ((c \div 64) % 64), 128 + (c % 64)>>
    ELSE <<240 + (c \div 262144), 128 + ((c \div 4096) % 64), 128 + ((c \div 64) % 64),
           128 + (c % 64)>>

\* text.encode("utf-8")
RECURSIVE EncodeUtf8(_)
EncodeUtf8(text) ==
    IF Len(text) = 0 THEN <<>>
    ELSE IF Len(text) = 1 THEN BytesDePunto(text[1])
    ELSE EncodeUtf8(SubSeq(text, 1, Len(text) \div 2))
            \o EncodeUtf8(SubSeq(text, Len(text) \div 2 + 1, Len(text)))

\* a decoding that hands the bytes on as they are
DecodeAttachedSinFallback(attached_bytes) == attached_bytes

\* lines 705-708: UTF-8, and latin-1 when the bytes are no UTF-8
DecodeAttached(attached_bytes) ==
    IF DecodeUtf8(attached_bytes).ok THEN DecodeUtf8(attached_bytes).text
    ELSE DecodeLatin1(attached_bytes)

\* the offsets (from 0) at or after desde where pat is in text
Apariciones(text, pat, desde) ==
    {i \in desde..(Len(text) - Len(pat)) : SubSeq(text, i + 1, i + Len(pat)) = pat}

\* text.find(pat, desde)
Find(text, pat, desde) ==
    IF Apariciones(text, pat, desde) = {} THEN -1
    ELSE CHOOSE i \in Apariciones(text, pat, desde) :
            \A j \in Apariciones(text, pat, desde) : i <= j

\* pat in text
Contiene(text, pat) == Apariciones(text, pat, 0) # {}

\* text.replace(" ", "")
SinEspacios(text) == SelectSeq(text, LAMBDA c : c # ESPACIO)

\* pat in text or pat in text.replace(" ", "")
ContieneLaxo(text, pat) == Contiene(text, pat) \/ Contiene(SinEspacios(text), pat)

\* what the function leaves when it raises
Rechazo(error, mensaje) == [ok |-> FALSE, error |-> error, mensaje |-> mensaje]

\* a screening of the CDATA that lets every content through
ErrorContenidoLaxo(original_cdata, rips_text) == ""

\* lines 743-766: the message of the check that refuses the contents, if any
ErrorContenido(original_cdata, rips_text) ==
    IF ContieneLaxo(original_cdata, CREDIT_NOTE) THEN "plantilla con CreditNote"
    ELSE IF ~ContieneLaxo(original_cdata, RIPS_DOCUMENTO) THEN "plantilla sin RipsDocumento"
    ELSE IF ~ContieneLaxo(rips_text, RIPS_DOCUMENTO) THEN "nota sin RipsDocumento"
    ELSE ""

\* lines 731-771, idx_content and idx_end being the offsets found
TrasMarcadores(attached_text, rips_text, idx_content, idx_end) ==
    IF idx_end = -1 THEN Rechazo("ValueError", "sin cierre del CDATA")
    ELSE IF ErrorContenido(SubSeq(attached_text, idx_content + 1, idx_end), rips_text) # ""
    THEN Rechazo("ValueError",
                 ErrorContenido(SubSeq(attached_text, idx_content + 1, idx_end), rips_text))
    ELSE [ok |-> TRUE,
          bytes |-> EncodeUtf8(SubSeq(attached_text, 1, idx_content) \o rips_text
                                 \o SubSeq(attached_text, idx_end + 1, Len(attached_text)))]

\* lines 721-771, idx_cdata being the offset of the CDATA opening
TrasCdata(attached_text, rips_text, idx_cdata) ==
    IF idx_cdata = -1 THEN Rechazo("ValueError", "sin CDATA")
    ELSE TrasMarcadores(attached_text, rips_text, idx_cdata + Len(CDATA_INI),
                        Find(attached_text, MARKER_END, idx_cdata + Len(CDATA_INI)))

\* lines 711-771, on the decoded template and the decoded new document
TrasDecodificar(attached_text, rips) ==
    IF ~rips.ok THEN Rechazo("UnicodeDecodeError", "")
    ELSE IF Find(attached_text, DESC_TAG, 0) = -1
    THEN Rechazo("ValueError", "sin cbc:Description")
    ELSE TrasCdata(attached_text, rips.text,
                   Find(attached_text, CDATA_INI, Find(attached_text, DESC_TAG, 0)))

\* incrustar_rips_en_attacheddocument_bytes(attached_bytes, rips_bytes): the
\* bytes returned (ok) or the exception raised
incrustar_rips_en_attacheddocument_bytes(attached_bytes, rips_bytes) ==
    TrasDecodificar(DecodeAttached(attached_bytes), DecodeUtf8(rips_bytes))

\* ---- inputs: a template is a prologue, the opening of the description, the
\* opening of the CDATA, the old content, the closing marker and an epilogue

Prologos ==
    {<<60, 97, 62>>,
     \* '<a t="e">' with e-acute in UTF-8 and in latin-1
     <<60, 97, 32, 116, 61, 34, 195, 169, 34, 62>>,
     <<60, 97, 32, 116, 61, 34, 233, 34, 62>>}

AperturasDescripcion == {<<60, 99, 98, 99, 58, 68, 101, 115, 99, 114, 105, 112, 116, 105, 111, 110, 62>>, <<60, 99, 98, 99, 58, 68, 101, 115, 99, 114, 105, 112, 116, 105, 111, 110, 32, 108, 97, 110, 103, 117, 97, 103, 101, 73, 68, 61, 34, 101, 115, 34, 62>>, <<>>}

AperturasCdata == {CDATA_INI, <<>>}

\* OLD, a RipsDocumento, one written with a space, a CreditNote, a
\* RipsDocumento that holds a CreditNote, one that holds "]]>"
ContenidosViejos ==
    {<<79, 76, 68>>,
     <<60, 82, 105, 112, 115, 68, 111, 99, 117, 109, 101, 110, 116, 111, 62, 49, 60, 47, 82, 105, 112, 115, 68, 111, 99, 117, 109, 101, 110, 116, 111, 62>>,
     <<60, 82, 105, 112, 115, 32, 68, 111, 99, 117, 109, 101, 110, 116, 111, 62>>,
     <<60, 67, 114, 101, 100, 105, 116, 78, 111, 116, 101, 47, 62>>,
     <<60, 82, 105, 112, 115, 68, 111, 99, 117, 109, 101, 110, 116, 111, 62, 60, 32, 67, 114, 101, 100, 105, 116, 78, 111, 116, 101, 47, 62>>,
     <<60, 82, 105, 112, 115, 68, 111, 99, 117, 109, 101, 110, 116, 111, 62, 93, 93, 62, 120>>}

Cierres == {MARKER_END, <<93, 93, 62>>, <<>>}

\* '</a>', one with e-acute in latin-1, one with a second description
Epilogos ==
    {<<60, 47, 97, 62>>,
     <<60, 98, 62, 233, 60, 47, 98, 62, 60, 47, 97, 62>>,
     <<60, 99, 98, 99, 58, 68, 101, 115, 99, 114, 105, 112, 116, 105, 111, 110, 62, 60, 33, 91, 67, 68, 65, 84, 65, 91, 60, 82, 105, 112, 115, 68, 111, 99, 117, 109, 101, 110, 116, 111, 62, 50, 93, 93, 62, 60, 47, 99, 98, 99, 58, 68, 101, 115, 99, 114, 105, 112, 116, 105, 111, 110, 62, 60, 47, 97, 62>>}

PlantillasXml ==
    {p \o d \o c \o o \o m \o e :
        p \in Prologos, d \in AperturasDescripcion, c \in AperturasCdata,
        o \in ContenidosViejos, m \in Cierres, e \in Epilogos}

\* NEW, a RipsDocumento, one with e-acute in UTF-8, one in latin-1, nothing
ContenidosNuevos ==
    {<<78, 69, 87>>,
     <<60, 82, 105, 112, 115, 68, 111, 99, 117, 109, 101, 110, 116, 111, 62, 57, 60, 47, 82, 105, 112, 115, 68, 111, 99, 117, 109, 101, 110, 116, 111, 62>>,
     <<60, 82, 105, 112, 115, 68, 111, 99, 117, 109, 101, 110, 116, 111, 62, 195, 169>>,
     <<60, 82, 105, 112, 115, 68, 111, 99, 117, 109, 101, 110, 116, 111, 62, 233>>,
     <<>>}

\* SpecIncrustar: one call of incrustar_rips_en_attacheddocument_bytes
Incrustar(attached_bytes, rips_bytes) ==
    /\ op.nombre = "inicio"
    /\ op' = [nombre |-> "incrustar", attached_bytes |-> attached_bytes,
              rips_bytes |-> rips_bytes]
    /\ resultado' = incrustar_rips_en_attacheddocument_bytes(attached_bytes, rips_bytes)
    /\ UNCHANGED <<factura_data, nota_data, resumen, vars_operacion, vars_sesion>>

NextIncrustar ==
    \E attached_bytes \in PlantillasXml : \E rips_bytes \in ContenidosNuevos :
        Incrustar(attached_bytes, rips_bytes)

SpecIncrustar == InitPayload /\ [][NextIncrustar]_vars

\* ------------------------------------------------------- app_nc_dian.py

\* A Decimal of this part is a number of thousandths that is not negative;
\* valor_nc is a float that str() writes with at most three fraction digits,
\* held as Num(FALSE, thousandths).
Decimal(mil) == [t |-> "decimal", mil |-> mil]

\* _dec(v): a Decimal as it is, a float through str()
_dec(v) == IF v.t = "decimal" THEN v ELSE Decimal(v.mil)

\* quantize(Decimal("0.01"), rounding=ROUND_HALF_UP), in hundredths
CuantizadoACentesimas(d) == (d.mil + 5) \div 10

\* _fmt2(v)
_fmt2(v) == DosDecimales(FALSE, CuantizadoACentesimas(_dec(v)))

\* a row of filas_df
FilaTtp(incluir, paciente, valor_nc) ==
    [incluir |-> incluir, paciente |-> paciente, valor_nc |-> valor_nc]

\* lines 110-113: total after the rows of sel from the i-th on
RECURSIVE TotalTtp(_, _, _)
TotalTtp(sel, i, total) ==
    IF i > Len(sel) THEN total
    ELSE TotalTtp(sel, i + 1, Decimal(total.mil + _dec(sel[i].valor_nc).mil))

\* lines 114-162: the line of the i-th selected row, with the fields that
\* depend on the row
LineaTtp(i, row) ==
    [numero_linea |-> i,
     cantidad |-> 1,
     valor_unitario |-> _fmt2(row.valor_nc),
     valor_a_pagar |-> _fmt2(row.valor_nc),
     valor_total_detalle_con_cargo_descuento |-> _fmt2(row.valor_nc),
     valor_total_detalle |-> _fmt2(row.valor_nc),
     paciente |-> row.paciente]

\* lines 165-182: the totals that depend on the rows
TotalesTtp(total) ==
    [valor_base |-> _fmt2(total),
     valor_base_mas_impuestos |-> _fmt2(total),
     total_nota_credito |-> _fmt2(total),
     valor_total_a_pagar |-> _fmt2(total)]

\* lines 105-182, sel being the rows with incluir == True
PayloadTtp(sel) ==
    IF sel = <<>> THEN [ok |-> FALSE, error |-> "ValueError", mensaje |-> "sin items"]
    ELSE [ok |-> TRUE,
          detalle_factura |-> [i \in 1..Len(sel) |-> LineaTtp(i, sel[i])],
          valor_nota_credito |-> TotalesTtp(TotalTtp(sel, 1, Decimal(0)))]

\* construir_payload_afacturar_ttp(rips, filas_df, ...): the lines and the
\* totals of the payload, or the exception raised
construir_payload_afacturar_ttp(filas_df) ==
    PayloadTtp(SelectSeq(filas_df, LAMBDA row : row.incluir))

\* the most rows of a filas_df
MaxFilas == 3

\* the amounts of the rows, in thousandths
ValoresNc == {Num(FALSE, m) : m \in {0, 4, 5, 10, 1005, 2500, 123456}}

FilasTtp ==
    {FilaTtp(i, VStr(<<"1">>), v) : i \in BOOLEAN, v \in ValoresNc}

RECURSIVE TablasTtp(_)
TablasTtp(n) ==
    IF n = 0 THEN {<<>>}
    ELSE TablasTtp(n - 1)
            \cup {Append(l, f) : l \in {x \in TablasTtp(n - 1) : Len(x) = n - 1}, f \in FilasTtp}

\* SpecTtp: one call of construir_payload_afacturar_ttp
ConstruirTtp(filas_df) ==
    /\ op.nombre = "inicio"
    /\ op' = [nombre |-> "construir_ttp", filas_df |-> filas_df]
    /\ resultado' = construir_payload_afacturar_ttp(filas_df)
    /\ UNCHANGED <<factura_data, nota_data, resumen, vars_operacion, vars_sesion>>

NextTtp == \E filas_df \in TablasTtp(MaxFilas) : ConstruirTtp(filas_df)

SpecTtp == InitPayload /\ [][NextTtp]_vars

\* ---------------------------------------------------------------- claims

CopiarHecho == op.nombre = "copiar"

\* v is blank: None, "" or an absent key
EnBlanco(v) == v = Absent \/ v = None \/ v = VStr(<<>>)

NumeroDe(u) == Get(u.numDocumentoIdentificacion)
TipoDe(u) == Get(u.tipoDocumentoIdentificacion)

\* positions of the reference records that carry the non-blank number of u
MismoNumero(u, factura) ==
    {j \in 1..Len(factura.usuarios) :
        /\ EsUsuario(factura.usuarios[j])
        /\ ~EnBlanco(NumeroDe(u))
        /\ NumeroDe(factura.usuarios[j]) = NumeroDe(u)}

\* ... and the same document type as u, blank or not
MismoPar(u, factura) ==
    {j \in MismoNumero(u, factura) : TipoDe(factura.usuarios[j]) = TipoDe(u)}

\* ... and the same non-blank document type as u
MismoParConTipo(u, factura) ==
    {j \in MismoPar(u, factura) : ~EnBlanco(TipoDe(u))}

\* positions of the target patients of the last operation
Pacientes == {i \in 1..Len(nota_antes.usuarios) : EsUsuario(nota_antes.usuarios[i])}

\* target patients that found a reference record in the last reconcile
Emparejados == {i \in Pacientes : emparejado[i] # 0}

SinItems(servicios) == \A k \in Claves : ItemsDe(servicios, k) = <<>>

ContenidosDe(servicios, k) ==
    [j \in 1..Len(ItemsDe(servicios, k)) |-> Contenido(ItemsDe(servicios, k)[j])]

EnSecuencia(x, seq) == \E n \in 1..Len(seq) : seq[n] = x

CamposSinTipoUsuario == Campos \ {"tipoUsuario"}

\* C1 (as stated): in reconcile, a matched target patient's non-blank
\* demographic field (other than tipoUsuario) is not written over by the
\* copy of the reference's values.
C1_Original ==
    CopiarHecho =>
        \A i \in Emparejados : \A campo \in CamposSinTipoUsuario :
            ~EnBlanco(nota_antes.usuarios[i][campo])
                => tras_copia[i][campo] = nota_antes.usuarios[i][campo]

\* C1 (amended): the copy of lines 200-221 is driven by the reference alone.
\* For a matched target patient and a field other than tipoUsuario, a
\* non-blank reference value is written to the target, normalized for its
\* field, whatever the target held; the target's value is kept exactly when
\* the reference's value is blank or absent.
C1_CopiaDesdeFactura ==
    CopiarHecho =>
        \A i \in Emparejados : \A campo \in CamposSinTipoUsuario :
            LET val == Get(factura_antes.usuarios[emparejado[i]][campo])
            IN  IF EnBlanco(val)
                THEN tras_copia[i][campo] = nota_antes.usuarios[i][campo]
                ELSE tras_copia[i][campo] = ValorCopiado(campo, val)

\* C1 witness: a matched patient had a non-blank field and lost it to the
\* reference's different value.
C1_Witness ==
    /\ CopiarHecho
    /\ \E i \in Emparejados : \E campo \in CamposSinTipoUsuario :
        /\ ~EnBlanco(nota_antes.usuarios[i][campo])
        /\ ~EnBlanco(Get(factura_antes.usuarios[emparejado[i]][campo]))
        /\ tras_copia[i][campo] # nota_antes.usuarios[i][campo]

\* target patients with no reference record of the same non-blank number
SinCoincidencia == {i \in Pacientes : MismoNumero(nota_antes.usuarios[i], factura_antes) = {}}

CAMPOS_NO_NORMALIZADOS ==
    {"tipoDocumentoIdentificacion", "numDocumentoIdentificacion", "codSexo",
     "incapacidad", "consecutivo", "servicios"}

SinServicios == {i \in Emparejados : SinItems(nota_antes.usuarios[i].servicios)}

\* matched target patients that had an item in some service group
ConServicios == {i \in Emparejados : ~SinItems(nota_antes.usuarios[i].servicios)}

\* the reference record, as it was before the call, that patient i matched
Referencia(i) == factura_antes.usuarios[emparejado[i]]

\* the content of every item of every patient of a document
ContenidoDoc(doc) ==
    [i \in 1..Len(doc.usuarios) |->
        IF EsUsuario(doc.usuarios[i])
        THEN [k \in Claves |-> ContenidosDe(doc.usuarios[i].servicios, k)]
        ELSE doc.usuarios[i]]

\* C3: after a reconcile without forceSign, a matched target patient that had
\* no item holds, in every service group, a list whose items equal the
\* reference patient's items of that group in number, order and content; the
\* copies are new objects (none is shared with the reference document), so an
\* edit of a target item leaves the reference document's items as they were.
C3_CopiaProfunda ==
    /\ (CopiarHecho /\ op.forzar_signo = 0) =>
            /\ \A i \in SinServicios : \A k \in Grupos :
                    /\ k \in DOMAIN nota_data.usuarios[i].servicios.m
                    /\ EsLista(nota_data.usuarios[i].servicios.m[k])
                    /\ ContenidosDe(nota_data.usuarios[i].servicios, k)
                            = ContenidosDe(Referencia(i).servicios, k)
            /\ OidsDe(nota_data) \cap OidsDe(factura_data) = {}
    /\ op.nombre = "editar" => ContenidoDoc(factura_data) = ContenidoDoc(factura_antes)

\* C3 witness: a target item copied from a two-item reference group was edited.
C3_Witness ==
    /\ op.nombre = "editar"
    /\ op.oid >= OidInicial
    /\ \E i \in SinServicios : \E k \in Grupos :
        /\ Len(ItemsDe(Referencia(i).servicios, k)) = 2
        /\ \E j \in 1..2 : /\ EsItem(ItemsDe(nota_data.usuarios[i].servicios, k)[j])
                           /\ ItemsDe(nota_data.usuarios[i].servicios, k)[j].oid = op.oid

\* the negation of a number value
Negado(v) == IF IsInt(v) THEN VInt(-(v.n)) ELSE VFlt(-(v.d))

\* C4: after a reconcile with forceSign = -1, every item copied into a target
\* patient holds, in each of vrServicio and valorPagoModerador, the negation
\* of the number the reference holds there, in every group and at every
\* position; the reference document's items keep their values.
C4_SignoNegado ==
    (CopiarHecho /\ op.forzar_signo = -1) =>
        /\ \A i \in SinServicios : \A k \in Claves :
            /\ Len(ItemsDe(nota_data.usuarios[i].servicios, k))
                    = Len(ItemsDe(Referencia(i).servicios, k))
            /\ \A j \in 1..Len(ItemsDe(Referencia(i).servicios, k)) :
                LET origen == ItemsDe(Referencia(i).servicios, k)[j]
                    copia == ItemsDe(nota_data.usuarios[i].servicios, k)[j]
                IN  EsItem(origen) =>
                        /\ EsItem(copia)
                        /\ \A c \in 1..Len(CAMPOS_ITEM_SIGNO) :
                            LET campo == CAMPOS_ITEM_SIGNO[c]
                            IN  IF IsNumber(origen[campo])
                                THEN copia[campo] = Negado(origen[campo])
                                ELSE copia[campo] = origen[campo]
        /\ ContenidoDoc(factura_data) = ContenidoDoc(factura_antes)

\* C4 witness: an item with a non-zero vrServicio and a non-zero
\* valorPagoModerador was copied with forceSign = -1.
C4_Witness ==
    /\ CopiarHecho
    /\ op.forzar_signo = -1
    /\ \E i \in SinServicios : \E k \in Claves :
        \E j \in 1..Len(ItemsDe(Referencia(i).servicios, k)) :
            LET origen == ItemsDe(Referencia(i).servicios, k)[j]
            IN  /\ EsItem(origen)
                /\ IsNumber(origen.vrServicio) /\ Truthy(origen.vrServicio)
                /\ IsNumber(origen.valorPagoModerador)
                /\ Truthy(origen.valorPagoModerador)

\* C5: a matched target patient that already had an item in some service
\* group keeps its items (the same objects with the same content under every
\* key, none added or removed) whatever forceSign is, and the summary counts
\* it under usuarios_ya_tenian_servicios and not under usuarios_modificados.
C5_ServiciosIntactos ==
    CopiarHecho =>
        /\ \A i \in ConServicios : \A k \in Claves :
                ItemsDe(nota_data.usuarios[i].servicios, k)
                    = ItemsDe(nota_antes.usuarios[i].servicios, k)
        /\ resumen.usuarios_ya_tenian_servicios = Cardinality(ConServicios)
        /\ resumen.usuarios_modificados = Cardinality(SinServicios)

\* C5 witness: a patient with items matched a reference record that has
\* different items, under a forced sign.
C5_Witness ==
    /\ CopiarHecho
    /\ op.forzar_signo = -1
    /\ \E i \in ConServicios :
        /\ ~SinItems(Referencia(i).servicios)
        /\ resumen.usuarios_ya_tenian_servicios >= 1

\* the reference records of the last operation whose number is blank
FacturaSinNumero ==
    {j \in 1..Len(factura_antes.usuarios) :
        /\ EsUsuario(factura_antes.usuarios[j])
        /\ EnBlanco(NumeroDe(factura_antes.usuarios[j]))}

\* the target patients of the last operation whose number is blank
NotaSinNumero == {i \in Pacientes : EnBlanco(NumeroDe(nota_antes.usuarios[i]))}

IndicesDe(factura) ==
    ConstruirIndices(factura.usuarios, 1,
        [inv_map_full |-> IndiceVacio, inv_map_by_num |-> IndiceVacio])

\* the positions an index points at
Imagen(f) == {f[x] : x \in DOMAIN f}

\* C6: a record with a blank document number takes no part in a match.  A
\* reference record with a blank number is in neither lookup index and is
\* matched by no target patient; a target patient with a blank number is
\* reported in usuarios_sin_encontrar and left as it was by the matching loop.
C6_NumeroEnBlanco ==
    CopiarHecho =>
        /\ \A j \in FacturaSinNumero :
            /\ j \notin Imagen(IndicesDe(factura_antes).inv_map_full)
            /\ j \notin Imagen(IndicesDe(factura_antes).inv_map_by_num)
            /\ \A i \in Pacientes : emparejado[i] # j
        /\ \A i \in NotaSinNumero :
            /\ emparejado[i] = 0
            /\ tras_copia[i] = nota_antes.usuarios[i]
            /\ EnSecuencia(<<TipoDe(nota_antes.usuarios[i]), NumeroDe(nota_antes.usuarios[i])>>,
                           resumen.usuarios_sin_encontrar)

\* C6 witness: a target patient and a reference record both have a blank
\* number and the same document type.
C6_Witness ==
    /\ CopiarHecho
    /\ \E i \in NotaSinNumero : \E j \in FacturaSinNumero :
        TipoDe(nota_antes.usuarios[i]) = TipoDe(factura_antes.usuarios[j])

\* C7 (as stated): a target patient is matched to a reference record with the
\* same (type, number) pair when one exists, otherwise to the last reference
\* record with the same number.
C7_Original ==
    CopiarHecho =>
        \A i \in Pacientes :
            LET u == nota_antes.usuarios[i]
            IN  IF MismoPar(u, factura_antes) # {}
                THEN emparejado[i] \in MismoPar(u, factura_antes)
                ELSE MismoNumero(u, factura_antes) # {}
                        => emparejado[i] = Max(MismoNumero(u, factura_antes))

\* C7 (amended): a target patient is matched to the last reference record
\* with the same non-blank document type and the same non-blank number when
\* one exists; otherwise (also when the target's type is blank and a
\* reference record with a blank type has its number) to the last reference
\* record with the same non-blank number; otherwise to none.
C7_ExactoLuegoNumero ==
    CopiarHecho =>
        \A i \in Pacientes :
            LET u == nota_antes.usuarios[i]
            IN  emparejado[i] =
                    IF MismoParConTipo(u, factura_antes) # {}
                    THEN Max(MismoParConTipo(u, factura_antes))
                    ELSE IF MismoNumero(u, factura_antes) # {}
                    THEN Max(MismoNumero(u, factura_antes))
                    ELSE 0

\* C7 witness: several reference records share the target's number under
\* different types, and the exact one is not the last of them.
C7_Witness ==
    /\ CopiarHecho
    /\ \E i \in Pacientes :
        LET u == nota_antes.usuarios[i]
        IN  /\ MismoParConTipo(u, factura_antes) # {}
            /\ emparejado[i] = Max(MismoParConTipo(u, factura_antes))
            /\ emparejado[i] < Max(MismoNumero(u, factura_antes))

\* positions of the patients of the current target document
PacientesAhora == {i \in 1..Len(nota_data.usuarios) : EsUsuario(nota_data.usuarios[i])}

\* C9: after normalizar_codigos_usuarios (alone, or at the end of reconcile)
\* every non-blank code field of every patient is a string of exactly its
\* fixed length, and tipoUsuario is "08".
C9_CodigosLongitudFija ==
    op.nombre \in {"normalizar_codigos", "copiar"} =>
        \A i \in PacientesAhora :
            /\ nota_data.usuarios[i].tipoUsuario = TIPO_USUARIO_FIJO
            /\ \A campo \in CamposCodigo :
                LET v == nota_data.usuarios[i][campo]
                IN  ~EnBlanco(v) => IsStr(v) /\ Len(v.s) = CODIGOS_LONGITUD(campo)

\* what normalizar_codigos_usuarios does to a patient before its last step
SinCoercion(u) ==
    RecortarFecha(FormatearCodigos([u EXCEPT !.tipoUsuario = TIPO_USUARIO_FIJO], 1))

\* C10: normalizar_codigos_usuarios turns a non-blank consecutivo that parses
\* as an integer into that integer, and this coercion writes to no other
\* field of the patient.
C10_ConsecutivoEntero ==
    op.nombre = "normalizar_codigos" =>
        \A i \in Pacientes :
            LET u == nota_antes.usuarios[i]
            IN  (~EnBlanco(u.consecutivo) /\ IntOk(u.consecutivo)) =>
                    /\ nota_data.usuarios[i].consecutivo = VInt(IntDe(u.consecutivo))
                    /\ \A campo \in Campos \ {"consecutivo"} :
                            nota_data.usuarios[i][campo] = SinCoercion(u)[campo]

\* the patient records of the documents the session holds: its note, and the
\* filtered note of the last export
RegistrosSesion ==
    UNION {{doc.usuarios[i] : i \in {x \in 1..Len(doc.usuarios) : EsUsuario(doc.usuarios[x])}}
            : doc \in {nota_data, nota_filtrada} \ {None}}

\* servicios is a mapping that holds every fixed group, each as a list
GruposCompletos(u) ==
    /\ EsDict(u.servicios)
    /\ \A g \in Grupos : g \in DOMAIN u.servicios.m /\ EsLista(u.servicios.m[g])

\* C8: after any sequence of session operations (load, reconcile from the
\* invoice, apply a template, save one patient's services, save a whole
\* patient, filter by indices), every patient record of the session's note has
\* a servicios mapping holding all seven fixed groups, each mapped to a list,
\* and normalizing the services once more changes nothing.
C8_GruposSiempreCompletos ==
    /\ Len(SERVICIO_GRUPOS) = 7
    /\ \A u \in RegistrosSesion :
        /\ GruposCompletos(u)
        /\ normalizar_servicios_usuario(u) = u
    /\ nota_data # None => normalizar_documento_servicios(nota_data) = nota_data

\* a patient's services were saved from a text whose consultas is no list and
\* that lacks five groups; the note holds them normalized
C8_Witness ==
    /\ op.nombre = "guardar_servicios"
    /\ \E u \in RegistrosSesion :
        /\ "otro" \in DOMAIN u.servicios.m
        /\ u.servicios.m["otro"] = ServParcial.m["otro"]
        /\ u.servicios.m["consultas"] = Lista(<<>>)
        /\ u.servicios.m["urgencias"] = ServParcial.m["urgencias"]

\* target patient u has a reference record: one that carries a number that
\* is no blank, the number of u (lines 169-181 and 194)
TieneReferencia(u) ==
    \E j \in 1..Len(factura_antes.usuarios) :
        /\ EsUsuario(factura_antes.usuarios[j])
        /\ Truthy(NumeroDe(factura_antes.usuarios[j]))
        /\ NumeroDe(factura_antes.usuarios[j]) = NumeroDe(u)

\* the target patients of the last reconcile that have a reference record
ConReferencia == {i \in Pacientes : TieneReferencia(nota_antes.usuarios[i])}

\* C29: the summary of copiar_servicios_factura_a_nota is consistent:
\* usuarios_demografia_completada is the number of target patients that found
\* a match, usuarios_modificados + usuarios_ya_tenian_servicios equals it, and
\* the matched patients plus the length of usuarios_sin_encontrar make the
\* number of well-formed target patient records.
C29_ResumenConsistente ==
    CopiarHecho =>
        /\ resumen.usuarios_demografia_completada = Cardinality(ConReferencia)
        /\ resumen.usuarios_modificados + resumen.usuarios_ya_tenian_servicios
                = resumen.usuarios_demografia_completada
        /\ Cardinality(ConReferencia) + Len(resumen.usuarios_sin_encontrar)
                = Cardinality(Pacientes)

\* a reconcile that left one patient unmatched and gave another the services
\* of its reference record
C29_Witness ==
    /\ CopiarHecho
    /\ resumen.usuarios_modificados >= 1
    /\ Len(resumen.usuarios_sin_encontrar) >= 1

\* C28: across the runs of a session, every index of
\* usuarios_actualizados_desde_excel identifies a patient of the note now
\* loaded whose vrServicio an application on that same note wrote: a run that
\* loads another note leaves no index recorded for the note before and
\* selects no patient by such an index for the export of the updated patients.
C28_IndicesDeLaNotaCargada ==
    [][nota_name' # nota_name =>
            /\ usuarios_actualizados_desde_excel' = {}
            /\ nota_filtrada' = None]_vars

\* a run loaded another note while indices of the note before were recorded
OtraNotaConIndicesViejos ==
    /\ op.nombre = "subir_nota"
    /\ usuarios_actualizados_desde_excel # {}

\* ------------------------------------------------ claims on the template

\* the patients of the note the template function was given
PacientesPlantilla == 1..Len(nota_antes.usuarios)

\* the entries under key k of patient i, before and after the call
ItemsAntesDe(i, k) == ItemsDe(nota_antes.usuarios[i].servicios, k)
ItemsAhoraDe(i, k) == ItemsDe(nota_data.usuarios[i].servicios, k)

\* C11: flattening a note with generar_plantilla_servicios and applying the
\* unmodified rows back leaves every vrServicio of every service item of the
\* note identical, in value and in representation, and adds or removes no
\* service item.
C11_IdaYVueltaIdentica ==
    op.nombre = "ida_y_vuelta" =>
        /\ Len(nota_data.usuarios) = Len(nota_antes.usuarios)
        /\ \A i \in PacientesPlantilla : \A k \in Claves :
            /\ Len(ItemsAhoraDe(i, k)) = Len(ItemsAntesDe(i, k))
            /\ \A j \in 1..Len(ItemsAntesDe(i, k)) :
                EsItem(ItemsAntesDe(i, k)[j]) =>
                    /\ EsItem(ItemsAhoraDe(i, k)[j])
                    /\ ItemsAhoraDe(i, k)[j].vrServicio = ItemsAntesDe(i, k)[j].vrServicio

\* the only row of the template of the last call
FilaUnica == op.plantilla.filas[1]

\* the template of the last call has one row, which writes an amount to a
\* (tipo_servicio, idx_item) that patient idx_usuario of the note lacked, and
\* an invoice was given
SiembraUnica ==
    /\ op.nombre = "aplicar"
    /\ ~FaltanColumnas(op.plantilla.columnas)
    /\ Len(op.plantilla.filas) = 1
    /\ factura_antes # None
    /\ IntOk(FilaUnica.idx_usuario) /\ IntOk(FilaUnica.idx_item)
    /\ ~IsNa(FilaUnica.vrServicio_nota)
    /\ IntDe(FilaUnica.idx_usuario) \in 0..(Len(nota_antes.usuarios) - 1)
    /\ IntDe(FilaUnica.idx_item) >= Len(ItemsAntesDe(IntDe(FilaUnica.idx_usuario) + 1,
                                                     FilaUnica.tipo_servicio))

\* the row carries the two document columns
ConColumnasDocumento ==
    {"tipoDocumentoIdentificacion", "numDocumentoIdentificacion"} \subseteq op.plantilla.columnas

\* the entries of reference patient r under the group of the row
LineasBase(r) == ItemsDe(factura_antes.usuarios[r].servicios, FilaUnica.tipo_servicio)

\* the reference patients that have the line the row asks for
ConLineaBase ==
    {r \in 1..Len(factura_antes.usuarios) :
        /\ IntDe(FilaUnica.idx_item) \in 0..(Len(LineasBase(r)) - 1)
        /\ EsItem(LineasBase(r)[IntDe(FilaUnica.idx_item) + 1])}

\* those among them that carry the document type and number of the row
ConDocumentoDeFila ==
    {r \in ConLineaBase :
        /\ TipoDe(factura_antes.usuarios[r]) = FilaUnica.tipoDocumentoIdentificacion
        /\ NumeroDe(factura_antes.usuarios[r]) = FilaUnica.numDocumentoIdentificacion}

\* the item the note holds where the row pointed is a copy of line r of the
\* invoice (its amount apart, which the row overwrites)
SembradoDesde(r) ==
    LET l == ItemsAhoraDe(IntDe(FilaUnica.idx_usuario) + 1, FilaUnica.tipo_servicio)
        j == IntDe(FilaUnica.idx_item) + 1
    IN  /\ j <= Len(l)
        /\ EsItem(l[j])
        /\ l[j].codServicio = LineasBase(r)[j].codServicio
        /\ l[j].valorPagoModerador = LineasBase(r)[j].valorPagoModerador

\* C12: when the target lacks the entry at (group, item-index) and the row
\* carries document-type and document-number columns, the seed item is
\* deep-copied from the reference patient with that type and number; the
\* reference patient at the same positional index is used only when the row
\* lacks those columns.
C12_SemillaPorDocumento ==
    /\ (SiembraUnica /\ ConColumnasDocumento /\ ConDocumentoDeFila # {})
            => \E r \in ConDocumentoDeFila : SembradoDesde(r)
    /\ (SiembraUnica /\ ~ConColumnasDocumento
            /\ IntDe(FilaUnica.idx_usuario) + 1 \in ConLineaBase)
            => SembradoDesde(IntDe(FilaUnica.idx_usuario) + 1)

\* a template function was called
PlantillaAplicada == op.nombre \in {"aplicar", "ida_y_vuelta"}

\* C13: aplicar_plantilla_servicios never raises because of the content of a
\* row (a non-integer, negative or out-of-range index, an unknown group, a
\* non-numeric amount, no seed source): it returns the note together with a
\* list of error strings.
C13_NuncaLanza == PlantillaAplicada => ~op.excepcion

\* the template of the last call could not be read or lacks a required column
PlantillaRechazada ==
    /\ op.nombre = "aplicar"
    /\ \/ ~op.plantilla.legible
       \/ {"idx_usuario", "tipo_servicio", "idx_item", "vrServicio_nota"}
            \ op.plantilla.columnas # {}

\* C14: when the template cannot be read or a required column is missing,
\* the call returns at once with a non-empty error list, and the note, the
\* reference and the session's set of updated patient indices are unchanged.
C14_RetornoTemprano ==
    PlantillaRechazada =>
        /\ ~op.excepcion
        /\ errores # <<>>
        /\ nota_data = nota_antes
        /\ factura_data = factura_antes
        /\ usuarios_actualizados_desde_excel = op.actualizados

\* a readable template without idx_item was refused for a note whose codes
\* the final normalization would have rewritten, the session holding an
\* updated patient
C14_Witness ==
    /\ PlantillaRechazada
    /\ op.plantilla.legible
    /\ usuarios_actualizados_desde_excel = {0}
    /\ normalizar_codigos_usuarios(nota_antes) # nota_antes

\* the template of the last call was read and has the required columns
PlantillaLeida ==
    /\ PlantillaAplicada
    /\ op.plantilla.legible
    /\ {"idx_usuario", "tipo_servicio", "idx_item", "vrServicio_nota"}
            \subseteq op.plantilla.columnas

\* the rows of that template without an amount
FilasEnBlanco ==
    {k \in 1..Len(op.plantilla.filas) : IsNa(op.plantilla.filas[k].vrServicio_nota)}

\* those among them whose two indices are integers
FilasEnBlancoConIndices ==
    {k \in FilasEnBlanco : /\ IntOk(op.plantilla.filas[k].idx_usuario)
                           /\ IntOk(op.plantilla.filas[k].idx_item)}

\* the template without its row k
SinFila(plantilla, k) ==
    [plantilla EXCEPT !.filas = SubSeq(@, 1, k - 1) \o SubSeq(@, k + 1, Len(@))]

\* what the call left is what it leaves when row k is taken out of the template
FilaSinEfectoEn(a) ==
    /\ nota_data = a.nota
    /\ errores = a.errores
    /\ usuarios_actualizados_desde_excel = a.actualizados

FilaSinEfecto(k) ==
    FilaSinEfectoEn(aplicar_plantilla_servicios(nota_antes, factura_antes,
                        SinFila(op.plantilla, k), op.actualizados, OidInicial))

\* C15 as stated: a row whose vrServicio_nota is blank changes neither the
\* service items nor a demographic field of the addressed patient, adds no
\* error string and does not mark the patient as updated.
C15_Original ==
    PlantillaLeida => \A k \in FilasEnBlanco : FilaSinEfecto(k)

\* C15, amended: a row whose vrServicio_nota is blank and whose idx_usuario
\* and idx_item are integers changes nothing, adds no error string and marks
\* no patient.
C15_EnBlancoConIndices ==
    PlantillaLeida => \A k \in FilasEnBlancoConIndices : FilaSinEfecto(k)

\* a row without amount but with a codSexo the addressed patient does not
\* have was applied together with a row that wrote
C15_Witness ==
    /\ PlantillaLeida
    /\ ~op.excepcion
    /\ "codSexo" \in op.plantilla.columnas
    /\ usuarios_actualizados_desde_excel # op.actualizados
    /\ \E k \in FilasEnBlancoConIndices :
        /\ ~IsNa(op.plantilla.filas[k].codSexo)
        /\ IntDe(op.plantilla.filas[k].idx_usuario) \in 0..(Len(nota_antes.usuarios) - 1)
        /\ nota_antes.usuarios[IntDe(op.plantilla.filas[k].idx_usuario) + 1].codSexo
                # op.plantilla.filas[k].codSexo

\* the template was generated
Generado == op.nombre = "generar"

\* the rows generated for the patient at index i
FilasDelIndice(i) == SelectSeq(op.filas, LAMBDA f : f.idx_usuario = i)

\* the (group, item index) pairs of the service items of the patient u
ParesDe(u) ==
    UNION {{<<g, k - 1>> : k \in 1..Len(ItemsDe(Get(u.servicios), g))} : g \in Claves}

\* the pairs of the patient of the invoice at index i, if there is one
ParesDeFactura(i) ==
    IF factura_data = None THEN {}
    ELSE IF i >= Len(factura_data.usuarios) THEN {}
    ELSE ParesDe(factura_data.usuarios[i + 1])

\* the rows filas are one row for each pair of pares
UnaFilaPorPar(filas, pares) ==
    /\ Len(filas) = Cardinality(pares)
    /\ {<<filas[j].tipo_servicio, filas[j].idx_item>> : j \in 1..Len(filas)} = pares

\* C25: flatten emits, for the target patient at index i, one row for each
\* (group, item index) of the target when it has a service item, and none for
\* the items only the reference has; when the target has none, one row for
\* each service item of the reference patient at index i, with a blank
\* vrServicio_nota and the flag "USUARIO SIN SERVICIOS EN NOTA"; reference
\* patients beyond the target's length give no row.
C25_FilasPorPaciente ==
    Generado =>
        /\ \A j \in 1..Len(op.filas) : op.filas[j].idx_usuario \in 0..(Len(nota_data.usuarios) - 1)
        /\ \A i \in 0..(Len(nota_data.usuarios) - 1) :
            IF ParesDe(nota_data.usuarios[i + 1]) # {}
            THEN /\ UnaFilaPorPar(FilasDelIndice(i), ParesDe(nota_data.usuarios[i + 1]))
                 /\ \A j \in 1..Len(FilasDelIndice(i)) :
                        FilasDelIndice(i)[j].campos_faltantes_nota # SIN_SERVICIOS
            ELSE /\ UnaFilaPorPar(FilasDelIndice(i), ParesDeFactura(i))
                 /\ \A j \in 1..Len(FilasDelIndice(i)) :
                        /\ FilasDelIndice(i)[j].vrServicio_nota = None
                        /\ FilasDelIndice(i)[j].campos_faltantes_nota = SIN_SERVICIOS

\* a note of one patient, without service items, and an invoice of two
\* patients with items: the rows come from the first patient of the invoice
C25_Witness ==
    /\ Generado
    /\ Len(nota_data.usuarios) = 1
    /\ ParesDe(nota_data.usuarios[1]) = {}
    /\ factura_data # None
    /\ Len(factura_data.usuarios) = 2
    /\ ParesDeFactura(0) # {}
    /\ ParesDeFactura(1) # {}
    /\ Len(op.filas) = Cardinality(ParesDeFactura(0))

\* the template of the last call has one row, which carries an amount and
\* addresses a patient of the note and an item index that is not negative
FilaQueEscribe ==
    /\ op.nombre = "aplicar"
    /\ ~op.excepcion
    /\ op.plantilla.legible
    /\ ~FaltanColumnas(op.plantilla.columnas)
    /\ Len(op.plantilla.filas) = 1
    /\ IntOk(FilaUnica.idx_usuario) /\ IntOk(FilaUnica.idx_item)
    /\ ~IsNa(FilaUnica.vrServicio_nota)
    /\ IntDe(FilaUnica.idx_usuario) \in 0..(Len(nota_antes.usuarios) - 1)
    /\ IntDe(FilaUnica.idx_item) >= 0

\* the group names a document of the model or a row may use
GruposDeFila == Claves \cup {FilaUnica.tipo_servicio}

\* entry j under key k of patient i is the one the row addresses
EsElDeLaFila(i, k, j) ==
    /\ i = IntDe(FilaUnica.idx_usuario) + 1
    /\ k = FilaUnica.tipo_servicio
    /\ j = IntDe(FilaUnica.idx_item) + 1

\* the call left the amount of entry j under key k of patient i as it was
MismoValor(i, k, j) ==
    /\ j <= Len(ItemsAhoraDe(i, k))
    /\ IF EsItem(ItemsAntesDe(i, k)[j])
       THEN /\ EsItem(ItemsAhoraDe(i, k)[j])
            /\ ItemsAhoraDe(i, k)[j].vrServicio = ItemsAntesDe(i, k)[j].vrServicio
       ELSE ItemsAhoraDe(i, k)[j] = ItemsAntesDe(i, k)[j]

\* the positions under key k of patient i that hold an entry the call created
Creados(i, k) == (Len(ItemsAntesDe(i, k)) + 1)..Len(ItemsAhoraDe(i, k))

\* C27: in aplicar_plantilla_servicios, a row with patient index u, group g
\* and item index k >= 0 changes the vrServicio of at most one service item,
\* the one at position k of group g of patient u; no other item of any patient
\* has its vrServicio changed, and no item is created except the one seeded
\* at position k.
C27_SoloElItemDeLaFila ==
    FilaQueEscribe =>
        \A i \in PacientesPlantilla : \A k \in GruposDeFila :
            /\ \A j \in 1..Len(ItemsAntesDe(i, k)) :
                ~EsElDeLaFila(i, k, j) => MismoValor(i, k, j)
            /\ \A j \in Creados(i, k) : EsElDeLaFila(i, k, j)

\* the amounts part of C27 alone
SoloCambiaElValorDeLaFila ==
    FilaQueEscribe =>
        \A i \in PacientesPlantilla : \A k \in GruposDeFila :
            \A j \in 1..Len(ItemsAntesDe(i, k)) :
                ~EsElDeLaFila(i, k, j) => MismoValor(i, k, j)

\* ------------------------------------------- claims on the payload builder

\* build was called
Construido == op.nombre = "construir"

\* build raised at the step whose message is mensaje
FallaEn(mensaje) == Construido /\ ~resultado.ok /\ resultado.mensaje = mensaje

\* a value of the header that is absent or blank after sanitization
EnBlancoSaneado(v) ==
    \/ v = Absent
    \/ v = None
    \/ IsStr(v) /\ \A i \in 1..Len(v.s) : v.s[i] \in {" ", "\t", "\n", "\r", "\f"}

\* the positions in REQ of the required fields build was given blank
RequeridosEnBlanco == {i \in 1..Len(REQ) : EnBlancoSaneado(op.a.encabezado[REQ[i]])}

\* C16: build fails, returning no payload, whenever one of the six header
\* fields id_nota_credito, fecha, hora, moneda, tipo_operacion,
\* tipo_nota_credito is absent or blank after sanitization; the error names
\* the first such field in that order, whatever else is wrong with the
\* arguments.
C16_RequeridosPrimero ==
    (Construido /\ RequeridosEnBlanco # {}) =>
        /\ FallaEn("encabezado requerido")
        /\ resultado.error = "ValueError"
        /\ \E i \in RequeridosEnBlanco :
            /\ resultado.campo = REQ[i]
            /\ \A j \in RequeridosEnBlanco : i <= j

\* a header with a date out of format and without tipo_nota_credito, as a
\* blank string, was refused
C16_Witness ==
    /\ Construido
    /\ RequeridosEnBlanco = {6}
    /\ op.a.encabezado.tipo_nota_credito # Absent
    /\ op.a.encabezado.tipo_nota_credito # None
    /\ ~Coincide(PyStr(op.a.encabezado.fecha), DATE_RE)
    /\ ~resultado.ok

\* the strings of a closed list, as values
Cadenas(allowed) == {VStr(x) : x \in allowed}

\* build returned a payload
Devuelto == Construido /\ resultado.ok

\* C17 as stated: every payload returned by build has tipo_operacion "35",
\* tipo_nota_credito one of "1".."5", servicio.modo_transporte "TERRESTRE",
\* servicio.datos_vehiculo.tipo one of AUTOBUS, MICROBUS, BUS,
\* generalidades.tipo_ambiente_dian "1" or "2" and generalidades.rg_tipo one
\* of HTML, PDF, PDF_PROPIO.
C17_Original ==
    Devuelto =>
        /\ resultado.encabezado.tipo_operacion \in Cadenas(TIPOS_OPERACION)
        /\ resultado.encabezado.tipo_nota_credito \in Cadenas(TIPOS_NOTA_CREDITO)
        /\ resultado.servicio.modo_transporte \in Cadenas(MODOS_TRANSPORTE)
        /\ resultado.servicio.datos_vehiculo.tipo \in Cadenas(TIPOS_VEHICULO)
        /\ resultado.generalidades.tipo_ambiente_dian \in Cadenas(TIPOS_AMBIENTE)
        /\ resultado.generalidades.rg_tipo \in Cadenas(TIPOS_RG)

\* the code build was given for the type of vehicle, if it was given one
TipoVehiculoDado ==
    IF op.a.servicio.datos_vehiculo \in {Absent, None} THEN Absent
    ELSE op.a.servicio.datos_vehiculo.tipo

\* one of the six codes build was given has a string form outside its list
CodigoFueraDeLista ==
    \/ PyStr(op.a.encabezado.tipo_operacion) \notin TIPOS_OPERACION
    \/ PyStr(op.a.encabezado.tipo_nota_credito) \notin TIPOS_NOTA_CREDITO
    \/ PyStr(op.a.servicio.modo_transporte) \notin MODOS_TRANSPORTE
    \/ PyStr(TipoVehiculoDado) \notin TIPOS_VEHICULO
    \/ PyStr(op.a.generalidades.tipo_ambiente_dian) \notin TIPOS_AMBIENTE
    \/ PyStr(op.a.generalidades.rg_tipo) \notin TIPOS_RG

\* C17, amended: in every payload returned by build the two codes of the
\* header are strings of their lists, and the codes of servicio and
\* generalidades are the values the caller gave, whose string form is in
\* their lists (an integer 1 or 2 for tipo_ambiente_dian stays an integer);
\* an input with a code whose string form is outside its list makes build
\* fail.
C17_Enumeraciones ==
    /\ Devuelto =>
        /\ resultado.encabezado.tipo_operacion \in Cadenas(TIPOS_OPERACION)
        /\ resultado.encabezado.tipo_nota_credito \in Cadenas(TIPOS_NOTA_CREDITO)
        /\ PyStr(resultado.servicio.modo_transporte) \in MODOS_TRANSPORTE
        /\ PyStr(resultado.servicio.datos_vehiculo.tipo) \in TIPOS_VEHICULO
        /\ PyStr(resultado.generalidades.tipo_ambiente_dian) \in TIPOS_AMBIENTE
        /\ PyStr(resultado.generalidades.rg_tipo) \in TIPOS_RG
        /\ resultado.servicio = op.a.servicio
        /\ resultado.generalidades = op.a.generalidades
    /\ (Construido /\ CodigoFueraDeLista) => ~resultado.ok

\* a payload was returned for codes given as integers
C17_Witness ==
    /\ Devuelto
    /\ IsInt(op.a.encabezado.tipo_nota_credito)
    /\ IsInt(op.a.encabezado.tipo_operacion)
    /\ IsInt(resultado.generalidades.tipo_ambiente_dian)

\* C18: in every payload returned by build, each chunk of encabezado.nota has
\* at most 1000 characters, for a free-text note of any length.
C18_TrozosHastaMil ==
    Devuelto =>
        \A c \in 1..Len(resultado.encabezado.nota) :
            Len(resultado.encabezado.nota[c]) <= MAX_LEN

\* chunks[0] + chunks[1] + ...
RECURSIVE Concatenar(_)
Concatenar(chunks) == IF chunks = <<>> THEN <<>> ELSE Head(chunks) \o Concatenar(Tail(chunks))

\* _split_nota_string was called alone
Partido == op.nombre = "partir"

\* the text the chunks are cut from: the sanitized text, or the default
\* observation when that is empty
TextoPartido ==
    IF SanitizarTexto(op.nota_str, 0) = <<>> THEN SIN_OBSERVACION
    ELSE SanitizarTexto(op.nota_str, 0)

\* C19: _split_nota_string with max_len >= min_piece returns, for every text
\* including the empty one, a non-empty list in which every chunk has at
\* least min_piece characters; the chunks together are the text, which is
\* padded with trailing spaces when it is a single chunk shorter than
\* min_piece.  The same holds for the chunks of encabezado.nota in a payload,
\* with min_piece 15.
C19_TrozosMinimos ==
    /\ Partido =>
        /\ resultado # <<>>
        /\ \A c \in 1..Len(resultado) : Len(resultado[c]) >= op.min_piece
        /\ Concatenar(resultado) =
            TextoPartido \o Relleno(IF Len(TextoPartido) < op.min_piece
                                    THEN op.min_piece - Len(TextoPartido) ELSE 0)
    /\ Devuelto =>
        /\ resultado.encabezado.nota # <<>>
        /\ \A c \in 1..Len(resultado.encabezado.nota) :
            Len(resultado.encabezado.nota[c]) >= MIN_PIECE

\* a last piece shorter than min_piece was merged into the one before it
C19_Witness ==
    /\ Partido
    /\ Len(resultado) >= 2
    /\ Len(resultado[Len(resultado)]) > op.max_len
    /\ Len(TextoPartido) % op.max_len < op.min_piece

\* the two totals build checks after it has reformatted them
TOTALES_CLAVE == {"total_nota_credito", "valor_total_a_pagar"}

\* the total k was not supplied, or supplied as None or ""
TotalEnBlanco(k) == op.a.valor_nota_credito[k] \in {Absent, None, VStr(<<>>)}

\* the total k was supplied and _fmt_dec takes it, as a negative number (a
\* negative zero too) or as nan or an infinity
TotalNegativoONoFinito(k) ==
    /\ ~TotalEnBlanco(k)
    /\ FmtDecOk(op.a.valor_nota_credito[k])
    /\ \/ FloatDeValor(op.a.valor_nota_credito[k]).t # "num"
       \/ FloatDeValor(op.a.valor_nota_credito[k]).neg

\* build failed at the decimal-string check of lines 215-216
FallaEnChequeoDecimal == FallaEn("debe ser numero con punto")

\* C20 as stated: the decimal-string check on total_nota_credito and
\* valor_total_a_pagar is redundant with the reformatting before it; build
\* fails at this step only when one of the two fields is absent or blank.
C20_Original ==
    FallaEnChequeoDecimal => \E k \in TOTALES_CLAVE : TotalEnBlanco(k)

\* C20, amended: build fails at the decimal-string check only when one of the
\* two totals is absent or blank, or was reformatted to a string with a minus
\* sign, "nan" or "inf"; in a payload both totals are strings of digits, a
\* point and two digits.
C20_ChequeoDecimal ==
    /\ FallaEnChequeoDecimal =>
        \E k \in TOTALES_CLAVE : TotalEnBlanco(k) \/ TotalNegativoONoFinito(k)
    /\ Devuelto =>
        \A k \in TOTALES_CLAVE :
            /\ IsStr(resultado.valor_nota_credito[k])
            /\ Coincide(SubSeq(resultado.valor_nota_credito[k].s,
                               Len(resultado.valor_nota_credito[k].s) - 2,
                               Len(resultado.valor_nota_credito[k].s)),
                        <<".", "d", "d">>)
            /\ IsDigit(SubSeq(resultado.valor_nota_credito[k].s, 1,
                              Len(resultado.valor_nota_credito[k].s) - 3))

\* both totals were supplied and reformatted without error, and the check
\* refused one of them
C20_Witness ==
    /\ FallaEnChequeoDecimal
    /\ \A k \in TOTALES_CLAVE : ~TotalEnBlanco(k) /\ FmtDecOk(op.a.valor_nota_credito[k])
    /\ \E k \in TOTALES_CLAVE : IsStr(op.a.valor_nota_credito[k])
                                /\ FloatDeValor(op.a.valor_nota_credito[k]).t = "num"

\* the arguments of the last build with no optional section
SinOpcionales ==
    [k \in DOMAIN op.a |->
        IF \E i \in 1..Len(OPCIONALES) : OPCIONALES[i] = k THEN None ELSE op.a[k]]

\* build was called with required sections that it accepts
RequeridosAceptados == Construido /\ construir_payload_nota_credito(SinOpcionales).ok

\* each optional section is in the payload exactly when it was given true
OpcionalesSegunDados ==
    \A i \in 1..Len(OPCIONALES) :
        (resultado[OPCIONALES[i]] # Absent) <=> Verdadero(op.a[OPCIONALES[i]])

\* cambio_de_moneda was given with a fecha_cambio that is no AAAA-MM-DD string
FechaCambioMala ==
    /\ Verdadero(op.a.cambio_de_moneda)
    /\ "fecha_cambio" \in DOMAIN op.a.cambio_de_moneda.m
    /\ ~ (/\ IsStr(op.a.cambio_de_moneda.m["fecha_cambio"])
          /\ Coincide(op.a.cambio_de_moneda.m["fecha_cambio"].s, DATE_RE))

\* cambio_de_moneda_totales was given with a total that _fmt_dec refuses
TotalDeCambioMalo ==
    /\ Verdadero(op.a.cambio_de_moneda_totales)
    /\ \E i \in 1..Len(CAMPOS_TOTALES) :
        /\ CAMPOS_TOTALES[i] \in DOMAIN op.a.cambio_de_moneda_totales.m
        /\ op.a.cambio_de_moneda_totales.m[CAMPOS_TOTALES[i]] \notin {None, VStr(<<>>)}
        /\ ~FmtDecOk(op.a.cambio_de_moneda_totales.m[CAMPOS_TOTALES[i]])

Formateado == op.nombre = "fmt_dec"

\* the positions of the commas and points of the text s
Separadores(s) == SelectSeq([i \in 1..Len(s) |-> i], LAMBDA i : s[i] \in {",", "."})

\* t is digits around one comma, with a digit on one side at least; p is the
\* positions of its separators
ComaEntreDigitos(t, p) ==
    /\ Len(p) = 1
    /\ t[p[1]] = ","
    /\ Len(t) > 1
    /\ \A i \in 1..Len(t) : i = p[1] \/ EsDigito(t[i])

\* the text s is an optional sign and digits around one comma, between spaces
ConComaDecimal(s) ==
    ComaEntreDigitos(SinSigno(StripEspacios(s)), Separadores(SinSigno(StripEspacios(s))))

\* r is an optional "-", digits, a point and two digits
ConDosDecimales(r) ==
    /\ Len(r) >= 4
    /\ r[Len(r) - 2] = "."
    /\ EsDigito(r[Len(r) - 1]) /\ EsDigito(r[Len(r)])
    /\ IsDigit(SubSeq(r, IF r[1] = "-" THEN 2 ELSE 1, Len(r) - 3))

\* the text t, digits around a comma at p with at most two digits after it,
\* with a point for the comma, a zero for a missing integer part and zeros
\* up to two fraction digits
ConPuntoYCeros(t, p) ==
    (IF p = 1 \/ (p = 2 /\ t[1] \in {"-", "+"}) THEN SubSeq(t, 1, p - 1) \o <<"0">>
     ELSE SubSeq(t, 1, p - 1))
        \o <<".">> \o SubSeq(SubSeq(t, p + 1, Len(t)) \o <<"0", "0">>, 1, 2)

\* what _fmt_dec returned for the text t with its decimal comma at p
ComaComoPunto(t, p) ==
    /\ resultado.ok
    /\ ConDosDecimales(resultado.valor.s)
    /\ (Len(t) - p <= 2 /\ t[1] # "+") => resultado.valor.s = ConPuntoYCeros(t, p)

\* a line of the detalle_factura given to build carries an amount with more
\* than one separator
LineaConVariosSeparadores ==
    \E i \in 1..Len(op.a.detalle_factura) : \E c \in 1..Len(CAMPOS_DETALLE) :
        /\ op.a.detalle_factura[i][CAMPOS_DETALLE[c]] # Absent
        /\ IsStr(op.a.detalle_factura[i][CAMPOS_DETALLE[c]])
        /\ Len(Separadores(op.a.detalle_factura[i][CAMPOS_DETALLE[c]].s)) > 1

\* C24: _fmt_dec on a string takes a single comma as the decimal separator and
\* returns a string with a point and exactly two fraction digits
\* ("1992000,50" gives "1992000.50"); it fails with the invalid-numeric-value
\* error for every string with more than one separator ("4,992,000.5"); build
\* given such a line fails and returns no payload, with that error when
\* everything before the lines is acceptable.
C24_ComaDecimal ==
    /\ (Formateado /\ ConComaDecimal(op.val.s)) =>
            ComaComoPunto(StripEspacios(op.val.s),
                          Separadores(StripEspacios(op.val.s))[1])
    /\ (Formateado /\ Len(Separadores(op.val.s)) > 1) =>
            (~resultado.ok /\ resultado.error = "ValueError"
                /\ resultado.mensaje = "Valor numerico invalido")
    /\ (Construido /\ LineaConVariosSeparadores) =>
            /\ ~resultado.ok
            /\ construir_payload_nota_credito(
                    [op.a EXCEPT !.detalle_factura = DetalleBase]).ok =>
                    (FallaEn("Valor numerico invalido") /\ resultado.campo = "detalle_factura")

\* build was given the line {"valor_unitario": "4,992,000.5"} after sections
\* it accepts and refused it
C24_Witness ==
    /\ Construido
    /\ Len(op.a.detalle_factura) = 1
    /\ op.a.detalle_factura[1].valor_unitario = VStr(<<"4", ",", "9", "9", "2", ",", "0", "0", "0", ".", "5">>)
    /\ construir_payload_nota_credito([op.a EXCEPT !.detalle_factura = DetalleBase]).ok
    /\ FallaEn("Valor numerico invalido")

\* build raised
ConstruirFallo == Construido /\ ~resultado.ok

\* the monetary cells of the lines in the order of lines 180-187: cell n is
\* key CeldaClave(n) of line CeldaLinea(n)
CeldaLinea(n) == ((n - 1) \div Len(CAMPOS_DETALLE)) + 1
CeldaClave(n) == CAMPOS_DETALLE[((n - 1) % Len(CAMPOS_DETALLE)) + 1]
Celdas(detalle) == 1..(Len(detalle) * Len(CAMPOS_DETALLE))

\* the cells of detalle that _fmt_dec refuses
CeldasMalas(detalle) ==
    {n \in Celdas(detalle) :
        /\ detalle[CeldaLinea(n)][CeldaClave(n)] # Absent
        /\ ~FmtDecOk(detalle[CeldaLinea(n)][CeldaClave(n)])}

\* ahora holds the lines antes with the cells before cell n reformatted and
\* the others as they were
ReformateadoHasta(antes, ahora, n) ==
    /\ Len(ahora) = Len(antes)
    /\ \A m \in Celdas(antes) :
        ahora[CeldaLinea(m)][CeldaClave(m)] =
            IF m < n /\ antes[CeldaLinea(m)][CeldaClave(m)] # Absent
            THEN _fmt_dec(antes[CeldaLinea(m)][CeldaClave(m)])
            ELSE antes[CeldaLinea(m)][CeldaClave(m)]

\* the fields whose checks come after the loop over the lines (lines 189-291)
CAMPOS_TRAS_LINEAS ==
    {"impuestos", "descuentos", "valor_nota_credito",
     "valor_nota_credito.total_nota_credito", "valor_nota_credito.valor_total_a_pagar",
     "cambio_de_moneda_totales", "generalidades", "generalidades.tipo_ambiente_dian",
     "generalidades.rg_tipo", "cambio_de_moneda.fecha_cambio"}

\* build raised inside the loop over the lines
FallaEnLineas ==
    /\ ConstruirFallo
    /\ resultado.campo = "detalle_factura"
    /\ resultado.mensaje = "Valor numerico invalido"

\* build raised after the loop over the lines
FallaTrasLineas == ConstruirFallo /\ resultado.campo \in CAMPOS_TRAS_LINEAS

\* C30 as stated: when build fails at any validation step it has modified none
\* of the caller-supplied sections; a retry sees the line items exactly as the
\* caller supplied them.
C30_Original == ConstruirFallo => resultado.detalle_factura = op.a.detalle_factura

\* C30 amended: a build that fails before the loop over the lines leaves them
\* as supplied; one that fails inside the loop leaves the monetary cells
\* before the refused one reformatted; one that fails after the loop leaves
\* every monetary cell reformatted.  A retry with the lines as left fails the
\* same way and leaves them the same.
C30_FallaDejaLineasReformateadas ==
    ConstruirFallo =>
        /\ IF FallaEnLineas
           THEN \E n \in CeldasMalas(op.a.detalle_factura) :
                    /\ \A m \in CeldasMalas(op.a.detalle_factura) : n <= m
                    /\ ReformateadoHasta(op.a.detalle_factura, resultado.detalle_factura, n)
           ELSE IF FallaTrasLineas
           THEN /\ CeldasMalas(op.a.detalle_factura) = {}
                /\ ReformateadoHasta(op.a.detalle_factura, resultado.detalle_factura,
                                     Len(op.a.detalle_factura) * Len(CAMPOS_DETALLE) + 1)
           ELSE resultado.detalle_factura = op.a.detalle_factura
        /\ construir_payload_nota_credito(
                [op.a EXCEPT !.detalle_factura = resultado.detalle_factura]) = resultado

\* build refused the rg_tipo of generalidades after it had reformatted a line
\* with three monetary cells
C30_Witness ==
    /\ FallaTrasLineas
    /\ resultado.campo = "generalidades.rg_tipo"
    /\ resultado.detalle_factura # op.a.detalle_factura
    /\ op.a.detalle_factura[1].valor_total_detalle_con_cargo_descuento # Absent

\* ------------------------------------------------ claims on the embedding

Incrustado == op.nombre = "incrustar"

\* the function returned bytes
IncrustadoOk == Incrustado /\ resultado.ok

\* the offsets i, j of the template's bytes where a CDATA opening ends and a
\* closing marker begins after it
Cortes ==
    {c \in (0..Len(op.attached_bytes)) \X (0..Len(op.attached_bytes)) :
        /\ c[1] >= Len(CDATA_INI)
        /\ SubSeq(op.attached_bytes, c[1] - Len(CDATA_INI) + 1, c[1]) = CDATA_INI
        /\ c[2] >= c[1]
        /\ c[2] + Len(MARKER_END) <= Len(op.attached_bytes)
        /\ SubSeq(op.attached_bytes, c[2] + 1, c[2] + Len(MARKER_END)) = MARKER_END}

\* C22: whenever the embedding returns a result, it is the template's bytes up
\* to and including the CDATA opening, then the new inner XML, then the
\* template's bytes from the closing marker to the end.
C22_BytesFueraIntactos ==
    IncrustadoOk =>
        \E c \in Cortes :
            resultado.bytes =
                SubSeq(op.attached_bytes, 1, c[1]) \o op.rips_bytes
                    \o SubSeq(op.attached_bytes, c[2] + 1, Len(op.attached_bytes))

\* the text t has the opening of a description, the opening of a CDATA at or
\* after it and the closing marker after that
ConMarcadores(t) ==
    \E d \in Apariciones(t, DESC_TAG, 0) :
        \E c \in Apariciones(t, CDATA_INI, d) :
            Apariciones(t, MARKER_END, c + Len(CDATA_INI)) # {}

\* where the old content of t begins, the markers being present
InicioViejo(t) == Find(t, CDATA_INI, Find(t, DESC_TAG, 0)) + Len(CDATA_INI)

\* the content between the markers of t
ContenidoViejo(t) == SubSeq(t, InicioViejo(t) + 1, Find(t, MARKER_END, InicioViejo(t)))

\* the content c is a RipsDocumento and no CreditNote, with or without spaces
\* inside the tags
EsRipsSinCreditNote(c) ==
    ContieneLaxo(c, RIPS_DOCUMENTO) /\ ~ContieneLaxo(c, CREDIT_NOTE)

\* the new content, decoded as r, is UTF-8 and a RipsDocumento
NuevoEsRips(r) == r.ok /\ ContieneLaxo(r.text, RIPS_DOCUMENTO)

\* the last call was given a template with both markers
MarcadoresPresentes == Incrustado /\ ConMarcadores(DecodeAttached(op.attached_bytes))

\* C23 as stated: the embedding succeeds for every template that has the CDATA
\* opening of the description followed by the closing marker, whatever the old
\* and the new content, and fails when either marker is absent.
C23_Original == Incrustado => (resultado.ok <=> MarcadoresPresentes)

\* the embedding of new content r in the template t succeeded exactly when it
\* should, and failed with a ValueError for a missing marker
ExitoSegunContenido(t, r) ==
    /\ resultado.ok <=>
        (ConMarcadores(t) /\ EsRipsSinCreditNote(ContenidoViejo(t)) /\ NuevoEsRips(r))
    /\ (~ConMarcadores(t) /\ r.ok) => (~resultado.ok /\ resultado.error = "ValueError")

\* C23, amended: the embedding succeeds exactly when the template has both
\* markers, the old content holds "<RipsDocumento" and no "<CreditNote", and
\* the new content is UTF-8 that holds "<RipsDocumento"; it fails with a
\* ValueError and no output when either marker is absent.
C23_ExitoSegunContenido ==
    Incrustado =>
        ExitoSegunContenido(DecodeAttached(op.attached_bytes), DecodeUtf8(op.rips_bytes))

\* both markers are there, with "OLD" between them and "NEW" to embed, and
\* the embedding was refused
C23_Witness ==
    /\ MarcadoresPresentes
    /\ ContenidoViejo(DecodeAttached(op.attached_bytes)) = <<79, 76, 68>>
    /\ op.rips_bytes = <<78, 69, 87>>
    /\ ~resultado.ok
    /\ resultado.mensaje = "plantilla sin RipsDocumento"

\* ------------------------------------------- claims on the TTP payload

ConstruidoTtp == op.nombre = "construir_ttp"

\* the rows of the last call that were selected
Seleccion == SelectSeq(op.filas_df, LAMBDA row : row.incluir)

\* the hundredths a string of digits, a point and two digits stands for
CentavosDe(s) == DigitosANat(SelectSeq(s, EsDigito))

\* the sum of the valor_total_detalle strings of the lines from the i-th on
RECURSIVE SumaDeLineas(_, _)
SumaDeLineas(detalle, i) ==
    IF i > Len(detalle) THEN 0
    ELSE CentavosDe(detalle[i].valor_total_detalle) + SumaDeLineas(detalle, i + 1)

\* C26: in the payload of construir_payload_afacturar_ttp, total_nota_credito,
\* valor_total_a_pagar and valor_base all equal the sum of the
\* valor_total_detalle strings of the lines, whatever fraction digits the
\* valor_nc amounts carry; the lines are numbered 1..n in the order of the
\* selection, and an empty selection fails.
C26_TotalesConsistentes ==
    ConstruidoTtp =>
        /\ (Seleccion = <<>>) <=> ~resultado.ok
        /\ resultado.ok =>
            /\ Len(resultado.detalle_factura) = Len(Seleccion)
            /\ \A i \in 1..Len(Seleccion) : resultado.detalle_factura[i].numero_linea = i
            /\ \A k \in {"total_nota_credito", "valor_total_a_pagar", "valor_base"} :
                CentavosDe(resultado.valor_nota_credito[k])
                    = SumaDeLineas(resultado.detalle_factura, 1)

====
